---- MODULE Spec2Model ----
(***************************************************************************)
(* AOG-TaskController: the ISOBUS Task Controller server (MyTCServer), its *)
(* per-partner ClientState store and the Application event loop that       *)
(* bridges it to AgOpenGPS.                                                *)
(*                                                                         *)
(* A 32-bit process data value is kept as its two 16-bit halves            *)
(* [hi, lo]: section j of a condensed work state occupies bits 2j..2j+1,   *)
(* so sections 0..7 live in lo and sections 8..15 in hi.                   *)
(***************************************************************************)
EXTENDS Integers, Sequences, FiniteSets, TLC

\* ------------------------------------------------------------------ bounds
\* Longest queue of uploaded pool chunks a partner may have pending.
MaxChunks == 2
\* The clock stops advancing once it reads MaxTicks * 50 milliseconds.
MaxTicks == 2
\* CAN callbacks and AOG frames delivered over one run.
MaxEvents == 4
\* Passes of a receive loop that are followed before the call counts as stuck
MaxParsePasses == 6
\* Datagrams delivered to the sockets when the pumps are taken on their own.
MaxDatagrams == 2
\* Calls of update_section_states followed when the function is taken on its own.
MaxCalls == 2
\* Iterations of the main loop followed when the shutdown is looked at.
MaxIterations == 2

\* ------------------------------------------------------- program constants
NUMBER_SECTIONS_PER_CONDENSED_MESSAGE == 16
OFF == 0
ON == 1
ERROR_SATE == 2
NOT_INSTALLED == 3

\* isobus::DataDescriptionIndex values used by the server
ActualWorkState == 141
SectionControlState == 160
ActualCondensedWorkState1_16 == 161
ActualCondensedWorkState241_256 == 176
SetpointWorkState == 289
SetpointCondensedWorkState1_16 == 290
SetpointCondensedWorkState241_256 == 305

\* AOG frame identifiers
HeartbeatSrc == 128
HeartbeatPgn == 240
HeartbeatIntervalMs == 100

\* The start word of an AOG frame and the subnet announcement of AgIO
PACKET_START == 32897
AgioSrc == 127
SubnetPgn == 201
SubnetMagic == 201
SubnetLen == 5
BroadcastPort == 9999

\* ------------------------------------------------------------ input domains
\* The partners (control functions) on the bus, in the iteration order of the
\* std::map that is keyed by their shared pointers.
PartnerOrder == <<"p1", "p2">>
Partners == {PartnerOrder[i] : i \in 1..Len(PartnerOrder)}

\* Milliseconds that may pass between two readings of the clock.
ClockAdvances == {0, 50, 100}

\* Section totals the geometry helper may report for a deserialised pool.
SectionCounts == {3, 16, 17, 256}

\* Desired-section bitmaps AOG may send in bytes 6 and 7 of a Steer Data frame.
SteerBitmaps == {<<0, 0>>, <<1, 0>>, <<5, 128>>}

\* 32-bit process data values an implement may report, as [hi, lo] halves.
\* Condensed work states: 5 = sections 0 and 1 ON; 0xAAAA0006 (negative as
\* int32) = section 0 ERROR, section 1 ON, sections 8..15 ERROR.
CondensedValues == {[hi |-> 0, lo |-> 5], [hi |-> 43690, lo |-> 6]}
\* Section control state and work state: off, on.
FlagValues == {[hi |-> 0, lo |-> 0], [hi |-> 0, lo |-> 1]}

\* Condensed-work-state windows the implement reports on.
ReportedWindows == {0, 1}

Pow4(n) == 4 ^ n

\* A field extraction that shifts by i instead of 2 * i.
TwoBitField_single_shift(value, i) ==
    IF i < 8 THEN (value.lo \div (2 ^ i)) % 4
             ELSE (value.hi \div (2 ^ (i - 8))) % 4

\* (value >> (2 * i)) & 0x03 on a 32-bit value
TwoBitField(value, i) ==
    IF i < 8 THEN (value.lo \div Pow4(i)) % 4
             ELSE (value.hi \div Pow4(i - 8)) % 4

\* value | (state << (2 * i)) for a field that is still zero
OrTwoBitField(value, i, state) ==
    IF i < 8 THEN [value EXCEPT !.lo = @ + state * Pow4(i)]
             ELSE [value EXCEPT !.hi = @ + state * Pow4(i - 8)]

\* ------------------------------------------------------------- ClientState
\* A value-initialised ClientState (ClientState(), or the entry that
\* std::map::operator[] inserts for a key that is not in the map).
DefaultClientState ==
    [numberOfSections           |-> 0,
     sectionSetpointStates      |-> <<>>,
     sectionActualStates        |-> <<>>,
     setpointWorkState          |-> FALSE,
     actualWorkState            |-> FALSE,
     isSectionControlEnabled    |-> FALSE,
     areMeasurementCommandsSent |-> FALSE,
     ddiToElementNumber         |-> <<>>,
     pool                       |-> <<>>]

\* std::vector<std::uint8_t>::resize(number): truncate, or pad with zeros
Resize(vec, number) ==
    [i \in 1..number |-> IF i <= Len(vec) THEN vec[i] ELSE 0]

\* set_number_of_sections that resizes the setpoint vector only.
set_number_of_sections_setpoints_only(st, number) ==
    [st EXCEPT !.numberOfSections      = number,
               !.sectionSetpointStates = Resize(@, number)]

set_number_of_sections(st, number) ==
    [st EXCEPT !.numberOfSections      = number,
               !.sectionSetpointStates = Resize(@, number),
               !.sectionActualStates   = Resize(@, number)]

\* Sections are numbered from 0 in the code; vectors here are indexed from 1.
set_section_setpoint_state(st, section, state) ==
    IF section < st.numberOfSections
    THEN [st EXCEPT !.sectionSetpointStates[section + 1] = state]
    ELSE st

\* A setter that grows the vector to reach the section instead of ignoring it.
set_section_actual_state_growing(st, section, state) ==
    IF section < st.numberOfSections
    THEN [st EXCEPT !.sectionActualStates[section + 1] = state]
    ELSE [st EXCEPT !.sectionActualStates =
             [Resize(@, section + 1) EXCEPT ![section + 1] = state]]

set_section_actual_state(st, section, state) ==
    IF section < st.numberOfSections
    THEN [st EXCEPT !.sectionActualStates[section + 1] = state]
    ELSE st

get_section_setpoint_state(st, section) ==
    IF section < st.numberOfSections
    THEN st.sectionSetpointStates[section + 1]
    ELSE NOT_INSTALLED

get_section_actual_state(st, section) ==
    IF section < st.numberOfSections
    THEN st.sectionActualStates[section + 1]
    ELSE NOT_INSTALLED

is_any_section_setpoint_on(st) ==
    \E i \in 1..Len(st.sectionSetpointStates) : st.sectionSetpointStates[i] = ON

\* Cached element number of a DDI, 0 when none is cached.
get_element_number_for_ddi(st, ddi) ==
    IF ddi \in DOMAIN st.ddiToElementNumber THEN st.ddiToElementNumber[ddi] ELSE 0

set_element_number_for_ddi(st, ddi, elementNumber) ==
    [st EXCEPT !.ddiToElementNumber =
        [d \in (DOMAIN @) \cup {ddi} |-> IF d = ddi THEN elementNumber ELSE @[d]]]

\* ------------------------------------------------- device descriptor pools
DeviceElementObject(elementNumber, childObjectIds) ==
    [objectType |-> "DeviceElement", elementNumber |-> elementNumber,
     childObjectIds |-> childObjectIds]

DeviceProcessDataObject(objectId, ddi, triggers) ==
    [objectType |-> "DeviceProcessData", objectId |-> objectId, ddi |-> ddi,
     triggers |-> triggers]

\* The object pool a partner with the given section total uploads: one boom
\* (element 5) that parents the work-state and section-control process data.
\* Process data a pool may leave out (the work states, process data of no
\* interest to the server) is left out of the pool of the three-section
\* implement.
DevicePool(sections) ==
    <<DeviceProcessDataObject(20, ActualCondensedWorkState1_16, {"OnChange", "TimeInterval"}),
      DeviceElementObject(5, <<20, 21, 22>> \o (IF sections > 3 THEN <<23, 24, 25>> ELSE <<>>)),
      DeviceProcessDataObject(21, SetpointCondensedWorkState1_16, {"OnChange"}),
      DeviceProcessDataObject(22, SectionControlState, {"OnChange"})>>
    \o (IF sections > 3
        THEN <<DeviceProcessDataObject(23, SetpointWorkState, {"TimeInterval"}),
               DeviceProcessDataObject(24, ActualWorkState, {"TimeInterval"}),
               DeviceProcessDataObject(25, 1, {"OnChange", "TimeInterval"})>>
        ELSE <<>>)

\* ------------------------------------------------------- CAN-side messages
SetValue(partner, ddi, elementNumber, value) ==
    [command |-> "set_value", partner |-> partner, ddi |-> ddi,
     elementNumber |-> elementNumber, value |-> value]

ChangeThresholdMeasurement(partner, ddi, elementNumber, threshold) ==
    [command |-> "change_threshold", partner |-> partner, ddi |-> ddi,
     elementNumber |-> elementNumber, value |-> threshold]

TimeIntervalMeasurement(partner, ddi, elementNumber, interval) ==
    [command |-> "time_interval", partner |-> partner, ddi |-> ddi,
     elementNumber |-> elementNumber, value |-> interval]

Word(n) == [hi |-> 0, lo |-> n]

\* ------------------------------------------------ setpoint propagation
\* A packing loop that fills the slots from the top of the word down.
RECURSIVE PackSetpoints_high_slot_first(_, _, _, _)
PackSetpoints_high_slot_first(st, sectionOffset, i, value) ==
    IF i >= NUMBER_SECTIONS_PER_CONDENSED_MESSAGE
    THEN value
    ELSE PackSetpoints_high_slot_first(st, sectionOffset, i + 1,
            OrTwoBitField(value, 15 - i,
                get_section_setpoint_state(st, (sectionOffset + i) % 256)))

\* The packing loop of send_section_setpoint_states, from section i on.
RECURSIVE PackSetpoints(_, _, _, _)
PackSetpoints(st, sectionOffset, i, value) ==
    IF i >= NUMBER_SECTIONS_PER_CONDENSED_MESSAGE
    THEN value
    ELSE PackSetpoints(st, sectionOffset, i + 1,
            OrTwoBitField(value, i,
                get_section_setpoint_state(st, (sectionOffset + i) % 256)))

\* send_section_setpoint_states on the client's state st: the state afterwards
\* and the SET-VALUEs handed to the CAN stack.
send_section_setpoint_states(st, client, ddiOffset) ==
    LET sectionOffset == (ddiOffset * NUMBER_SECTIONS_PER_CONDENSED_MESSAGE) % 256
        value == PackSetpoints(st, sectionOffset, 0, Word(0))
        ddiTarget == SetpointCondensedWorkState1_16 + ddiOffset
        condensed == SetValue(client, ddiTarget,
                        get_element_number_for_ddi(st, ddiTarget), value)
        setpointWorkState == is_any_section_setpoint_on(st)
    IN  IF st.setpointWorkState # setpointWorkState
        THEN [st  |-> [st EXCEPT !.setpointWorkState = setpointWorkState],
              out |-> <<condensed,
                        SetValue(client, SetpointWorkState,
                            get_element_number_for_ddi(st, SetpointWorkState),
                            Word(IF setpointWorkState THEN 1 ELSE 0))>>]
        ELSE [st |-> st, out |-> <<condensed>>]

\* The section loop of update_section_states for one client, from section i on.
RECURSIVE SectionLoop(_, _, _, _, _, _)
SectionLoop(st, client, sectionStates, i, requiresUpdate, out) ==
    IF i >= st.numberOfSections
    THEN [st |-> st, requiresUpdate |-> requiresUpdate, out |-> out]
    ELSE LET flush == (i % NUMBER_SECTIONS_PER_CONDENSED_MESSAGE = 0) /\ requiresUpdate
             sent == IF flush
                     THEN send_section_setpoint_states(st, client,
                              ((i \div NUMBER_SECTIONS_PER_CONDENSED_MESSAGE) - 1) % 256)
                     ELSE [st |-> st, out |-> <<>>]
             differs == /\ i < Len(sectionStates)
                        /\ sectionStates[i + 1] #
                               (get_section_setpoint_state(sent.st, i) = ON)
             st2 == IF differs
                    THEN set_section_setpoint_state(sent.st, i,
                             IF sectionStates[i + 1] THEN ON ELSE OFF)
                    ELSE sent.st
         IN  SectionLoop(st2, client, sectionStates, i + 1,
                         IF differs THEN TRUE ELSE (requiresUpdate /\ ~flush),
                         out \o sent.out)

\* The body of the client loop of update_section_states for an auto-mode client.
UpdateClientSections(st, client, sectionStates) ==
    LET looped == SectionLoop(st, client, sectionStates, 0, FALSE, <<>>)
    IN  IF looped.requiresUpdate
        THEN LET sent == send_section_setpoint_states(looped.st, client,
                            looped.st.numberOfSections \div NUMBER_SECTIONS_PER_CONDENSED_MESSAGE)
             IN  [st |-> sent.st, out |-> looped.out \o sent.out]
        ELSE [st |-> looped.st, out |-> looped.out]

\* update_section_states with the manual-mode gate left out.
RECURSIVE update_section_states_ungated(_, _, _, _)
update_section_states_ungated(cl, sectionStates, k, out) ==
    IF k > Len(PartnerOrder)
    THEN [clients |-> cl, out |-> out]
    ELSE LET client == PartnerOrder[k]
         IN  IF client \notin DOMAIN cl
             THEN update_section_states_ungated(cl, sectionStates, k + 1, out)
             ELSE LET r == UpdateClientSections(cl[client], client, sectionStates)
                  IN  update_section_states_ungated([cl EXCEPT ![client] = r.st],
                                                    sectionStates, k + 1, out \o r.out)

\* update_section_states over the client store cl, from the k-th partner of
\* the map's iteration order on. A client in manual mode ends the whole call.
RECURSIVE update_section_states(_, _, _, _)
update_section_states(cl, sectionStates, k, out) ==
    IF k > Len(PartnerOrder)
    THEN [clients |-> cl, out |-> out]
    ELSE LET client == PartnerOrder[k]
         IN  IF client \notin DOMAIN cl
             THEN update_section_states(cl, sectionStates, k + 1, out)
             ELSE IF ~cl[client].isSectionControlEnabled
                  THEN [clients |-> cl, out |-> out]
                  ELSE LET r == UpdateClientSections(cl[client], client, sectionStates)
                       IN  update_section_states([cl EXCEPT ![client] = r.st],
                                                 sectionStates, k + 1, out \o r.out)

\* --------------------------------------------- section-control propagation
send_section_control_state(st, client, enabled) ==
    SetValue(client, SectionControlState,
             get_element_number_for_ddi(st, SectionControlState),
             Word(IF enabled THEN 1 ELSE 0))

\* A propagation that sends the mode to every client, changed or not.
RECURSIVE update_section_control_enabled_level(_, _, _, _)
update_section_control_enabled_level(cl, enabled, k, out) ==
    IF k > Len(PartnerOrder)
    THEN [clients |-> cl, out |-> out]
    ELSE LET client == PartnerOrder[k]
         IN  IF client \in DOMAIN cl
             THEN LET st == [cl[client] EXCEPT !.isSectionControlEnabled = enabled]
                  IN  update_section_control_enabled_level([cl EXCEPT ![client] = st],
                          enabled, k + 1,
                          Append(out, send_section_control_state(st, client, enabled)))
             ELSE update_section_control_enabled_level(cl, enabled, k + 1, out)

RECURSIVE update_section_control_enabled(_, _, _, _)
update_section_control_enabled(cl, enabled, k, out) ==
    IF k > Len(PartnerOrder)
    THEN [clients |-> cl, out |-> out]
    ELSE LET client == PartnerOrder[k]
         IN  IF client \in DOMAIN cl /\ cl[client].isSectionControlEnabled # enabled
             THEN LET st == [cl[client] EXCEPT !.isSectionControlEnabled = enabled]
                  IN  update_section_control_enabled([cl EXCEPT ![client] = st], enabled,
                          k + 1, Append(out, send_section_control_state(st, client, enabled)))
             ELSE update_section_control_enabled(cl, enabled, k + 1, out)

\* ------------------------------------------------ measurement subscription
IsActualWorkStateDdi(ddi) ==
    \/ ddi = ActualWorkState
    \/ (ddi >= ActualCondensedWorkState1_16 /\ ddi <= ActualCondensedWorkState241_256)

IsSectionControlDdi(ddi) ==
    \/ ddi = SectionControlState
    \/ ddi = SetpointWorkState
    \/ (ddi >= SetpointCondensedWorkState1_16 /\ ddi <= SetpointCondensedWorkState241_256)

\* Trigger requests that ask for the time interval on either walk.
TriggerCommands_always_interval(client, pdo, el, withTimeInterval) ==
    (IF "OnChange" \in pdo.triggers
     THEN <<ChangeThresholdMeasurement(client, pdo.ddi, el.elementNumber, 1)>>
     ELSE <<>>)
    \o
    (IF "TimeInterval" \in pdo.triggers
     THEN <<TimeIntervalMeasurement(client, pdo.ddi, el.elementNumber, 1000)>>
     ELSE <<>>)

\* The commands requested for process data object pdo under element el.
TriggerCommands(client, pdo, el, withTimeInterval) ==
    (IF "OnChange" \in pdo.triggers
     THEN <<ChangeThresholdMeasurement(client, pdo.ddi, el.elementNumber, 1)>>
     ELSE <<>>)
    \o
    (IF withTimeInterval /\ "TimeInterval" \in pdo.triggers
     THEN <<TimeIntervalMeasurement(client, pdo.ddi, el.elementNumber, 1000)>>
     ELSE <<>>)

\* The child loop over element el, from child c on, for process data pdo.
RECURSIVE ChildLoop(_, _, _, _, _, _, _)
ChildLoop(st, client, pdo, el, c, withTimeInterval, out) ==
    IF c > Len(el.childObjectIds)
    THEN [st |-> st, out |-> out]
    ELSE IF el.childObjectIds[c] = pdo.objectId
         THEN ChildLoop(set_element_number_for_ddi(st, pdo.ddi, el.elementNumber),
                        client, pdo, el, c + 1, withTimeInterval,
                        out \o TriggerCommands(client, pdo, el, withTimeInterval))
         ELSE ChildLoop(st, client, pdo, el, c + 1, withTimeInterval, out)

\* The inner loop over the pool (index j) looking for the parents of pdo.
RECURSIVE ParentLoop(_, _, _, _, _, _)
ParentLoop(st, client, pdo, j, withTimeInterval, out) ==
    IF j > Len(st.pool)
    THEN [st |-> st, out |-> out]
    ELSE IF st.pool[j].objectType = "DeviceElement"
         THEN LET r == ChildLoop(st, client, pdo, st.pool[j], 1, withTimeInterval, out)
              IN  ParentLoop(r.st, client, pdo, j + 1, withTimeInterval, r.out)
         ELSE ParentLoop(st, client, pdo, j + 1, withTimeInterval, out)

\* One of the two outer loops over the pool (index i): actual == TRUE is the
\* walk for the actual work states, FALSE the walk for the setpoint side.
RECURSIVE ObjectLoop(_, _, _, _, _)
ObjectLoop(st, client, actual, i, out) ==
    IF i > Len(st.pool)
    THEN [st |-> st, out |-> out]
    ELSE LET object == st.pool[i]
             wanted == /\ object.objectType = "DeviceProcessData"
                       /\ IF actual THEN IsActualWorkStateDdi(object.ddi)
                                    ELSE IsSectionControlDdi(object.ddi)
         IN  IF wanted
             THEN LET r == ParentLoop(st, client, object, 1, actual, out)
                  IN  ObjectLoop(r.st, client, actual, i + 1, r.out)
             ELSE ObjectLoop(st, client, actual, i + 1, out)

\* A walk over the client store that never sets the latch.
RECURSIVE request_measurement_commands_unlatched(_, _, _)
request_measurement_commands_unlatched(cl, k, out) ==
    IF k > Len(PartnerOrder)
    THEN [clients |-> cl, out |-> out]
    ELSE LET client == PartnerOrder[k]
         IN  IF client \in DOMAIN cl /\ ~cl[client].areMeasurementCommandsSent
             THEN LET a == ObjectLoop(cl[client], client, TRUE, 1, out)
                      b == ObjectLoop(a.st, client, FALSE, 1, a.out)
                  IN  request_measurement_commands_unlatched(
                          [cl EXCEPT ![client] = b.st], k + 1, b.out)
             ELSE request_measurement_commands_unlatched(cl, k + 1, out)

\* request_measurement_commands over the client store, from the k-th partner on.
RECURSIVE request_measurement_commands(_, _, _)
request_measurement_commands(cl, k, out) ==
    IF k > Len(PartnerOrder)
    THEN [clients |-> cl, out |-> out]
    ELSE LET client == PartnerOrder[k]
         IN  IF client \in DOMAIN cl /\ ~cl[client].areMeasurementCommandsSent
             THEN LET a == ObjectLoop(cl[client], client, TRUE, 1, out)
                      b == ObjectLoop(a.st, client, FALSE, 1, a.out)
                      st == [b.st EXCEPT !.areMeasurementCommandsSent = TRUE]
                  IN  request_measurement_commands([cl EXCEPT ![client] = st], k + 1, b.out)
             ELSE request_measurement_commands(cl, k + 1, out)

\* ------------------------------------------------------------ AOG heartbeat
\* A payload byte that puts the first section in the most significant bit.
RECURSIVE HeartbeatByte_msb_first(_, _, _, _)
HeartbeatByte_msb_first(st, sectionIndex, i, byte) ==
    IF i >= 8
    THEN byte
    ELSE IF sectionIndex + i < st.numberOfSections
         THEN HeartbeatByte_msb_first(st, sectionIndex, i + 1,
                  byte + (IF get_section_actual_state(st, sectionIndex + i) = ON
                          THEN 2 ^ (7 - i) ELSE 0))
         ELSE byte

\* One payload byte: the ON bits of up to eight sections from sectionIndex on.
RECURSIVE HeartbeatByte(_, _, _, _)
HeartbeatByte(st, sectionIndex, i, byte) ==
    IF i >= 8
    THEN byte
    ELSE IF sectionIndex + i < st.numberOfSections
         THEN HeartbeatByte(st, sectionIndex, i + 1,
                  byte + (IF get_section_actual_state(st, sectionIndex + i) = ON
                          THEN 2 ^ i ELSE 0))
         ELSE byte

RECURSIVE HeartbeatBytes(_, _, _)
HeartbeatBytes(st, sectionIndex, data) ==
    IF sectionIndex >= st.numberOfSections
    THEN data
    ELSE HeartbeatBytes(st, sectionIndex + 8,
                        Append(data, HeartbeatByte(st, sectionIndex, 0, 0)))

HeartbeatData(st) ==
    HeartbeatBytes(st, 0,
        <<IF st.isSectionControlEnabled THEN 1 ELSE 0, st.numberOfSections>>)

\* The packet handed to UdpConnections::send for one client.
Heartbeat(client, st) ==
    [client |-> client, src |-> HeartbeatSrc, pgn |-> HeartbeatPgn, data |-> HeartbeatData(st)]

RECURSIVE Heartbeats(_, _, _)
Heartbeats(cl, k, out) ==
    IF k > Len(PartnerOrder)
    THEN out
    ELSE IF PartnerOrder[k] \in DOMAIN cl
         THEN Heartbeats(cl, k + 1, Append(out, Heartbeat(PartnerOrder[k], cl[PartnerOrder[k]])))
         ELSE Heartbeats(cl, k + 1, out)

\* An expiry test that needs more than the timeout to have elapsed.
time_expired_ms_strict(timestamp, timeout, timeNow) == (timeNow - timestamp) > timeout

\* isobus::SystemTiming::time_expired_ms
time_expired_ms(timestamp, timeout, timeNow) == (timeNow - timestamp) >= timeout

\* -------------------------------------------------------------- UDP framing
\* UdpConnections::calculate_crc. Its loop counter is a std::uint8_t compared
\* with data.size(): for more than 255 bytes the comparison never fails and
\* the call does not return.
RECURSIVE SumRange(_, _, _)
SumRange(data, first, last) ==
    IF first > last THEN 0
    ELSE IF first = last THEN data[first]
    ELSE LET mid == (first + last) \div 2
         IN  SumRange(data, first, mid) + SumRange(data, mid + 1, last)

SumBytes(data) == SumRange(data, 1, Len(data))

calculate_crc(data) ==
    IF Len(data) > 255
    THEN [returned |-> FALSE]
    ELSE [returned |-> TRUE, crc |-> SumBytes(data) % 256]

\* UdpConnections::send to the broadcast address of the subnet: the datagram
\* handed to the socket, or no return at all.
send(subnet, src, pgn, data) ==
    LET header == <<src, pgn, Len(data) % 256>>
        crc    == calculate_crc(header \o data)
    IN  IF crc.returned
        THEN [returned |-> TRUE,
              dest     |-> subnet \o <<255>>,
              port     |-> BroadcastPort,
              bytes    |-> <<PACKET_START \div 256, PACKET_START % 256>>
                               \o header \o data \o <<crc.crc>>]
        ELSE [returned |-> FALSE]

\* rxBuffer[i] of a static std::array: zero where nothing was written yet.
\* mem holds the array up to the last byte ever written.
ByteAt(mem, i) == IF i < Len(mem) THEN mem[i + 1] ELSE 0

\* receive_from(rxBuffer.data() + rxIndex, ...) of one datagram
Receive(mem, rxIndex, datagram) ==
    LET top == IF rxIndex + Len(datagram) > Len(mem)
               THEN rxIndex + Len(datagram) ELSE Len(mem)
    IN  [i \in 1..top |-> IF i > rxIndex /\ i <= rxIndex + Len(datagram)
                          THEN datagram[i - rxIndex]
                          ELSE ByteAt(mem, i - 1)]

\* std::memmove(rxBuffer.data(), rxBuffer.data() + index, count)
MemMove(mem, index, count) ==
    [i \in 1..Len(mem) |-> IF i <= count THEN ByteAt(mem, index + i - 1) ELSE mem[i]]

\* (rxBuffer[index++] << 8) | rxBuffer[index++] modifies index twice without
\* sequencing; a build may read either operand first.
StartReadOrders == {"left_first", "right_first"}

ReadStart(mem, index, order) ==
    IF order = "left_first"
    THEN ByteAt(mem, index) * 256 + ByteAt(mem, (index + 1) % 256)
    ELSE ByteAt(mem, (index + 1) % 256) * 256 + ByteAt(mem, index)

\* The tail of one pass of a parse loop: the bytes after index move to the
\* front, or the buffer is emptied.
Compact(ps, index, rxIndex) ==
    IF index < rxIndex
    THEN [ps EXCEPT !.mem = MemMove(@, index, rxIndex - index),
                    !.rxIndex = rxIndex - index, !.index = index]
    ELSE [ps EXCEPT !.rxIndex = 0, !.index = index]

\* The while loop of handle_address_detection on the parser state ps =
\* [mem, rxIndex, index, subnets]; index is a std::uint8_t that is set to 0
\* once, before the loop. subnets collects the subnets committed. The loop is
\* followed for at most fuel passes.
RECURSIVE AddressDetectionLoop(_, _, _)
AddressDetectionLoop(ps, order, fuel) ==
    IF ps.rxIndex < 8
    THEN [ps EXCEPT !.returned = TRUE]
    ELSE IF fuel = 0
    THEN ps
    ELSE LET mem   == ps.mem
             start == ReadStart(mem, ps.index, order)
             i2    == (ps.index + 2) % 256
         IN  IF start # PACKET_START
             THEN AddressDetectionLoop(Compact(ps, i2, 0), order, fuel - 1)
             ELSE LET src == ByteAt(mem, i2)
                      pgn == ByteAt(mem, (i2 + 1) % 256)
                      len == ByteAt(mem, (i2 + 2) % 256)
                      i5  == (i2 + 3) % 256
                      hdr == src = AgioSrc /\ pgn = SubnetPgn /\ len = SubnetLen
                      m1  == hdr /\ ByteAt(mem, i5) = SubnetMagic
                      i6  == IF hdr THEN (i5 + 1) % 256 ELSE i5
                      m2  == m1 /\ ByteAt(mem, i6) = SubnetMagic
                      i7  == IF m1 THEN (i6 + 1) % 256 ELSE i6
                  IN  IF m2
                      THEN LET subnet == <<ByteAt(mem, i7), ByteAt(mem, (i7 + 1) % 256),
                                           ByteAt(mem, (i7 + 2) % 256)>>
                               index  == (i7 + 3 + len - 4) % 256
                           IN  AddressDetectionLoop(
                                   Compact([ps EXCEPT !.subnets = Append(@, subnet)],
                                           index, ps.rxIndex),
                                   order, fuel - 1)
                      ELSE AddressDetectionLoop(
                               Compact(ps, (i7 + len + 1) % 256, ps.rxIndex),
                               order, fuel - 1)

\* handle_address_detection for one received datagram.
handle_address_detection(rx, datagram, order) ==
    AddressDetectionLoop(
        [mem |-> Receive(rx.mem, rx.rxIndex, datagram),
         rxIndex |-> rx.rxIndex + Len(datagram),
         index |-> 0, subnets |-> <<>>, returned |-> FALSE],
        order, MaxParsePasses)

\* The while loop of handle_incoming_packets on the parser state ps =
\* [mem, rxIndex, index, frames]; frames collects what the packet callback
\* is invoked with: source, PGN and the len bytes that follow the header in
\* the buffer.
RECURSIVE IncomingPacketsLoop(_, _, _)
IncomingPacketsLoop(ps, order, fuel) ==
    IF ps.rxIndex < 8
    THEN [ps EXCEPT !.returned = TRUE]
    ELSE IF fuel = 0
    THEN ps
    ELSE LET mem   == ps.mem
             start == ReadStart(mem, ps.index, order)
             i2    == (ps.index + 2) % 256
         IN  IF start # PACKET_START
             THEN IncomingPacketsLoop(Compact(ps, i2, 0), order, fuel - 1)
             ELSE LET src   == ByteAt(mem, i2)
                      pgn   == ByteAt(mem, (i2 + 1) % 256)
                      len   == ByteAt(mem, (i2 + 2) % 256)
                      i5    == (i2 + 3) % 256
                      frame == [src |-> src, pgn |-> pgn,
                                data |-> [n \in 1..len |-> ByteAt(mem, i5 + n - 1)]]
                  IN  IncomingPacketsLoop(
                          Compact([ps EXCEPT !.frames = Append(@, frame)],
                                  (i5 + len + 1) % 256, ps.rxIndex),
                          order, fuel - 1)

\* handle_incoming_packets for one received datagram.
handle_incoming_packets(rx, datagram, order) ==
    IncomingPacketsLoop(
        [mem |-> Receive(rx.mem, rx.rxIndex, datagram),
         rxIndex |-> rx.rxIndex + Len(datagram),
         index |-> 0, frames |-> <<>>, returned |-> FALSE],
        order, MaxParsePasses)

\* Each packet of the heartbeat loop as UdpConnections::send puts it on the
\* wire, with the client it is about.
SendAll(subnet, packets) ==
    [h \in 1..Len(packets) |->
        LET sent == send(subnet, packets[h].src, packets[h].pgn, packets[h].data)
        IN  [client |-> packets[h].client, src |-> packets[h].src,
             pgn |-> packets[h].pgn, data |-> packets[h].data,
             dest |-> sent.dest, port |-> sent.port, bytes |-> sent.bytes]]

\* Datagrams that reach the discovery socket: the subnet announcement of AgIO
\* for 16.32.48 and a Section Control frame, which is seven bytes long.
SubnetAnnouncement == <<128, 129, 127, 201, 5, 201, 201, 16, 32, 48, 63>>
SectionControlFrame == <<128, 129, 127, 241, 1, 1, 114>>
DiscoveryDatagrams == {SubnetAnnouncement, SectionControlFrame}

\* -------------------------------------------------------------------- state
VARIABLES
    clients,                \* MyTCServer::clients: partner -> ClientState
    uploadedPools,          \* MyTCServer::uploadedPools: partner -> queue of chunks
    configuredSubnet,       \* Settings::configuredSubnet
    lastHeartbeatTransmit,  \* the static of Application::update
    now,                    \* the millisecond clock (SystemTiming::get_timestamp_ms)
    pc,                     \* the step of Application::update the loop is at
    canOut,                 \* process data commands handed to the CAN stack by the last step
    udpOut,                 \* AOG packets handed to UdpConnections::send by the last step
    lastOp,                 \* the operation the last step performed, with its inputs and result
    activated,              \* partners whose latest lifecycle event is a successful activation
    timedOut,               \* partners whose latest lifecycle event is a client timeout
    events,                 \* CAN callbacks and AOG frames delivered so far
    rxDetect,               \* rxBuffer and rxIndex, the statics of handle_address_detection
    rxMain,                 \* rxBuffer and rxIndex, the statics of handle_incoming_packets
    savedSubnet,            \* the subnet in settings.json, <<>> while nothing was saved
    mainSocket,             \* the subnet the main socket was last bound for
    lastAnnounced,          \* the subnet of the latest announcement received, <<>> if none
    running                 \* the flag the window procedure clears on WM_CLOSE

vars == <<clients, uploadedPools, configuredSubnet, lastHeartbeatTransmit, now, pc,
          canOut, udpOut, lastOp, activated, timedOut, events,
          rxDetect, rxMain, savedSubnet, mainSocket, lastAnnounced, running>>

udpVars == <<rxDetect, rxMain, savedSubnet, mainSocket, lastAnnounced>>

DEFAULT_SUBNET == <<192, 168, 1>>

\* An erase that empties the map.
Erase_all(map, key) == <<>>

\* std::map::erase(key)
Erase(map, key) == [k \in (DOMAIN map) \ {key} |-> map[k]]

\* map[key] = value
Put(map, key, value) == [k \in (DOMAIN map) \cup {key} |-> IF k = key THEN value ELSE map[k]]

\* map[key] used as an lvalue: a value-initialised entry is inserted when absent
Touch(map, key, default) == IF key \in DOMAIN map THEN map ELSE Put(map, key, default)

\* sectionStates as the packet handler builds it from bytes 6 and 7
BitOf(byte, i) == (byte \div (2 ^ i)) % 2 = 1

SteerSectionStates(bitmap) ==
    [i \in 1..16 |-> IF i <= 8 THEN BitOf(bitmap[1], i - 1) ELSE BitOf(bitmap[2], i - 9)]

Init ==
    /\ running = TRUE
    /\ clients = <<>>
    /\ uploadedPools = <<>>
    /\ configuredSubnet = DEFAULT_SUBNET
    /\ lastHeartbeatTransmit = 0
    /\ now = 0
    /\ pc = "detect"
    /\ canOut = <<>>
    /\ udpOut = <<>>
    /\ lastOp = [op |-> "init"]
    /\ activated = {}
    /\ timedOut = {}
    /\ events = 0
    /\ rxDetect = [mem |-> <<>>, rxIndex |-> 0]
    /\ rxMain = [mem |-> <<>>, rxIndex |-> 0]
    /\ savedSubnet = <<>>
    /\ mainSocket = DEFAULT_SUBNET
    /\ lastAnnounced = <<>>

Quiet == canOut' = <<>> /\ udpOut' = <<>>

\* ------------------------------------------------------------ the event loop
\* Step 1: the discovery-socket pump. Nothing is waiting on the socket, or
\* one datagram is received behind what the buffer still holds and the parse
\* loop runs; every announcement it recognises is committed to the settings,
\* saved, and the main socket is closed, reopened and bound for it.
ValidAnnouncement(datagram) ==
    /\ Len(datagram) = 11
    /\ SubSeq(datagram, 1, 7) = <<128, 129, 127, 201, 5, 201, 201>>

HandleAddressDetection ==
    /\ UNCHANGED running
    /\ pc = "detect"
    /\ pc' = "pump"
    /\ \/ /\ lastOp' = [op |-> "handle_address_detection", frame |-> "none"]
          /\ UNCHANGED <<configuredSubnet, events, udpVars>>
       \/ /\ events < MaxEvents
          /\ \E datagram \in DiscoveryDatagrams, order \in StartReadOrders :
                LET r == handle_address_detection(rxDetect, datagram, order)
                    n == Len(r.subnets)
                IN  /\ r.returned
                    /\ rxDetect' = [mem |-> r.mem, rxIndex |-> r.rxIndex]
                    /\ configuredSubnet' = IF n > 0 THEN r.subnets[n] ELSE configuredSubnet
                    /\ savedSubnet' = IF n > 0 THEN r.subnets[n] ELSE savedSubnet
                    /\ mainSocket' = IF n > 0 THEN r.subnets[n] ELSE mainSocket
                    /\ lastAnnounced' = IF ValidAnnouncement(datagram)
                                        THEN SubSeq(datagram, 8, 10) ELSE lastAnnounced
                    /\ lastOp' = [op |-> "handle_address_detection", frame |-> "datagram",
                                  datagram |-> datagram, buffered |-> rxDetect.rxIndex,
                                  subnets |-> r.subnets]
          /\ events' = events + 1
          /\ UNCHANGED rxMain
    /\ Quiet
    /\ UNCHANGED <<clients, uploadedPools, lastHeartbeatTransmit, now, activated, timedOut>>

\* What the send calls of one handler may return: the CAN stack takes the
\* commands (TRUE) or, under backpressure, rejects them (FALSE). No handler
\* reads the returned value.
Acceptances(out) == IF out = <<>> THEN {TRUE} ELSE BOOLEAN

\* Step 2: the main-socket pump with the packet handler of Application::initialize.
HandleIncomingPackets ==
    /\ UNCHANGED running
    /\ pc = "pump"
    /\ UNCHANGED udpVars
    /\ pc' = "request"
    /\ \/ /\ lastOp' = [op |-> "handle_incoming_packets", frame |-> "none"]
          /\ canOut' = <<>>
          /\ UNCHANGED <<clients, events>>
       \/ /\ events < MaxEvents
          /\ \E bitmap \in SteerBitmaps :
                LET sectionStates == SteerSectionStates(bitmap)
                    r == update_section_states(clients, sectionStates, 1, <<>>)
                IN  /\ clients' = r.clients
                    /\ canOut' = r.out
                    /\ \E accepted \in Acceptances(r.out) :
                          lastOp' = [op |-> "update_section_states",
                                     bitmap |-> bitmap,
                                     sectionStates |-> sectionStates,
                                     accepted |-> accepted]
          /\ events' = events + 1
       \/ /\ events < MaxEvents
          /\ \E enabled \in BOOLEAN :
                LET r == update_section_control_enabled(clients, enabled, 1, <<>>)
                IN  /\ clients' = r.clients
                    /\ canOut' = r.out
                    /\ \E accepted \in Acceptances(r.out) :
                          lastOp' = [op |-> "update_section_control_enabled",
                                     enabled |-> enabled, accepted |-> accepted]
          /\ events' = events + 1
    /\ udpOut' = <<>>
    /\ UNCHANGED <<uploadedPools, configuredSubnet, lastHeartbeatTransmit, now, activated,
                   timedOut>>

\* Step 3
RequestMeasurementCommands ==
    /\ UNCHANGED running
    /\ pc = "request"
    /\ UNCHANGED udpVars
    /\ pc' = "tc"
    /\ LET r == request_measurement_commands(clients, 1, <<>>)
       IN  /\ clients' = r.clients
           /\ canOut' = r.out
           /\ \E accepted \in Acceptances(r.out) :
                 lastOp' = [op |-> "request_measurement_commands", accepted |-> accepted]
    /\ udpOut' = <<>>
    /\ UNCHANGED <<uploadedPools, configuredSubnet, lastHeartbeatTransmit, now,
                   activated, timedOut, events>>

\* ------------------------------------------- callbacks of the TC server base
\* Step 4, tcServer->update(): the CAN stack processes the frames it received
\* and invokes the overridden hooks, any number of them, one after another.

\* What a partner may upload: a chunk the DDOP deserialiser accepts or rejects.
Chunks == {"valid", "invalid"}

deserialize_binary_object_pool(binaryPool) == binaryPool = "valid"

\* A chunk loop whose flag starts out true.
RECURSIVE DeserializeLoop_accept_empty(_, _)
DeserializeLoop_accept_empty(queue, deserialized) ==
    IF queue = <<>>
    THEN TRUE
    ELSE IF Tail(queue) = <<>>
         THEN deserialize_binary_object_pool(Head(queue))
         ELSE DeserializeLoop_accept_empty(Tail(queue), deserialized)

\* The while loop of activate_object_pool: every queued chunk is popped and
\* fed to the deserialiser; the flag keeps the verdict on the latest one.
RECURSIVE DeserializeLoop(_, _)
DeserializeLoop(queue, deserialized) ==
    IF queue = <<>>
    THEN deserialized
    ELSE DeserializeLoop(Tail(queue), deserialize_binary_object_pool(Head(queue)))

\* The ClientState activate_object_pool builds from a deserialised pool whose
\* geometry holds numberOfSections sections.
ActivatedState(numberOfSections) ==
    set_number_of_sections([DefaultClientState EXCEPT !.pool = DevicePool(numberOfSections)],
                           numberOfSections % 256)

\* A store that starts the queue afresh when appendToPool is false.
store_device_descriptor_object_pool_replacing(pools, partnerCF, binaryPool, appendToPool) ==
    IF appendToPool /\ partnerCF \in DOMAIN pools
    THEN Put(pools, partnerCF, Append(pools[partnerCF], binaryPool))
    ELSE Put(pools, partnerCF, <<binaryPool>>)

\* store_device_descriptor_object_pool on uploadedPools: the map afterwards.
store_device_descriptor_object_pool(pools, partnerCF, binaryPool, appendToPool) ==
    LET touched == Touch(pools, partnerCF, <<>>)
    IN  Put(touched, partnerCF, Append(touched[partnerCF], binaryPool))

StoreDeviceDescriptorObjectPool ==
    /\ UNCHANGED running
    /\ pc = "tc"
    /\ UNCHANGED udpVars
    /\ events < MaxEvents
    /\ \E partnerCF \in Partners, binaryPool \in Chunks, appendToPool \in BOOLEAN :
          LET queue == IF partnerCF \in DOMAIN uploadedPools
                       THEN uploadedPools[partnerCF] ELSE <<>>
          IN  /\ Len(queue) < MaxChunks
              /\ uploadedPools' = store_device_descriptor_object_pool(
                                      uploadedPools, partnerCF, binaryPool, appendToPool)
              /\ lastOp' = [op |-> "store_device_descriptor_object_pool",
                            partner |-> partnerCF, chunk |-> binaryPool,
                            appendToPool |-> appendToPool, result |-> TRUE]
    /\ events' = events + 1
    /\ Quiet
    /\ UNCHANGED <<clients, configuredSubnet, lastHeartbeatTransmit, now, pc, activated,
                   timedOut>>

\* What the caller holds in the activation-error and pool-error references
\* when it invokes the hook (0 is NoErrors). The hook leaves its reference
\* parameters unnamed and never assigns them.
\* An install that leaves the bindings of a ClientState already in the store.
InstallClient_keeping_bindings(cl, partnerCF, state) ==
    IF partnerCF \in DOMAIN cl
    THEN Put(cl, partnerCF,
             [state EXCEPT !.ddiToElementNumber = cl[partnerCF].ddiToElementNumber])
    ELSE Put(cl, partnerCF, state)

\* clients[partnerCF] = state at the end of activate_object_pool
InstallClient(cl, partnerCF, state) == Put(cl, partnerCF, state)

CallerErrorValues ==
    {[activationError |-> 0, poolError |-> 0], [activationError |-> 1, poolError |-> 1]}

ActivateObjectPool ==
    /\ UNCHANGED running
    /\ pc = "tc"
    /\ UNCHANGED udpVars
    /\ events < MaxEvents
    /\ \E partnerCF \in Partners, passed \in CallerErrorValues :
          IF partnerCF \notin DOMAIN uploadedPools
          THEN /\ lastOp' = [op |-> "activate_object_pool", partner |-> partnerCF,
                             chunks |-> <<>>, result |-> FALSE, uploaded |-> FALSE,
                             passed |-> passed,
                             activationError |-> passed.activationError,
                             poolError |-> passed.poolError]
               /\ UNCHANGED <<clients, uploadedPools, activated, timedOut>>
          ELSE LET queue == uploadedPools[partnerCF]
                   deserialized == DeserializeLoop(queue, FALSE)
               IN  /\ uploadedPools' = [uploadedPools EXCEPT ![partnerCF] = <<>>]
                   /\ IF deserialized
                      THEN \E numberOfSections \in SectionCounts :
                              /\ clients' = InstallClient(clients, partnerCF,
                                                          ActivatedState(numberOfSections))
                              /\ lastOp' = [op |-> "activate_object_pool",
                                            partner |-> partnerCF, chunks |-> queue,
                                            result |-> TRUE, uploaded |-> TRUE,
                                            passed |-> passed,
                                            activationError |-> passed.activationError,
                                            poolError |-> passed.poolError,
                                            sections |-> numberOfSections,
                                            hadBindings |->
                                                /\ partnerCF \in DOMAIN clients
                                                /\ clients[partnerCF].ddiToElementNumber
                                                       # <<>>]
                              /\ activated' = activated \cup {partnerCF}
                              /\ timedOut' = timedOut \ {partnerCF}
                      ELSE /\ lastOp' = [op |-> "activate_object_pool",
                                         partner |-> partnerCF, chunks |-> queue,
                                         result |-> FALSE, uploaded |-> TRUE,
                                         passed |-> passed,
                                         activationError |-> passed.activationError,
                                         poolError |-> passed.poolError]
                           /\ UNCHANGED <<clients, activated, timedOut>>
    /\ events' = events + 1
    /\ Quiet
    /\ UNCHANGED <<configuredSubnet, lastHeartbeatTransmit, now, pc>>

DeactivateObjectPool ==
    /\ UNCHANGED running
    /\ pc = "tc"
    /\ UNCHANGED udpVars
    /\ events < MaxEvents
    /\ \E partnerCF \in Partners :
          /\ clients' = Erase(clients, partnerCF)
          /\ uploadedPools' = Erase(uploadedPools, partnerCF)
          /\ activated' = activated \ {partnerCF}
          /\ timedOut' = timedOut \ {partnerCF}
          /\ lastOp' = [op |-> "deactivate_object_pool", partner |-> partnerCF,
                        result |-> TRUE]
    /\ events' = events + 1
    /\ Quiet
    /\ UNCHANGED <<configuredSubnet, lastHeartbeatTransmit, now, pc>>

DeleteDeviceDescriptorObjectPool ==
    /\ UNCHANGED running
    /\ pc = "tc"
    /\ UNCHANGED udpVars
    /\ events < MaxEvents
    /\ \E partnerCF \in Partners :
          /\ clients' = Erase(clients, partnerCF)
          /\ uploadedPools' = Erase(uploadedPools, partnerCF)
          /\ activated' = activated \ {partnerCF}
          /\ timedOut' = timedOut \ {partnerCF}
          /\ lastOp' = [op |-> "delete_device_descriptor_object_pool",
                        partner |-> partnerCF, result |-> TRUE]
    /\ events' = events + 1
    /\ Quiet
    /\ UNCHANGED <<configuredSubnet, lastHeartbeatTransmit, now, pc>>

OnClientTimeout ==
    /\ UNCHANGED running
    /\ pc = "tc"
    /\ UNCHANGED udpVars
    /\ events < MaxEvents
    /\ \E partner \in Partners :
          /\ clients' = Erase(clients, partner)
          /\ activated' = activated \ {partner}
          /\ timedOut' = timedOut \cup {partner}
          /\ lastOp' = [op |-> "on_client_timeout", partner |-> partner]
    /\ events' = events + 1
    /\ Quiet
    /\ UNCHANGED <<uploadedPools, configuredSubnet, lastHeartbeatTransmit, now, pc>>

\* The unpacking loop of on_value_command, from section i of the window on.
RECURSIVE UnpackActualStates(_, _, _, _)
UnpackActualStates(st, sectionIndexOffset, processDataValue, i) ==
    IF i >= NUMBER_SECTIONS_PER_CONDENSED_MESSAGE
    THEN st
    ELSE UnpackActualStates(
            set_section_actual_state(st, (i + sectionIndexOffset) % 256,
                                     TwoBitField(processDataValue, i)),
            sectionIndexOffset, processDataValue, i + 1)

\* A handler that looks the partner up through clients[partner] before the
\* switch, whatever the DDI.
on_value_command_touching(cl, partner, dataDescriptionIndex, processDataValue) ==
    LET touched == Touch(cl, partner, DefaultClientState)
    IN  IF /\ dataDescriptionIndex >= ActualCondensedWorkState1_16
           /\ dataDescriptionIndex <= ActualCondensedWorkState241_256
        THEN [touched EXCEPT ![partner] =
                 UnpackActualStates(@,
                     (NUMBER_SECTIONS_PER_CONDENSED_MESSAGE *
                        ((dataDescriptionIndex - ActualCondensedWorkState1_16) % 256)) % 256,
                     processDataValue, 0)]
        ELSE IF dataDescriptionIndex = SectionControlState
        THEN [touched EXCEPT ![partner].isSectionControlEnabled = (processDataValue = Word(1))]
        ELSE IF dataDescriptionIndex = ActualWorkState
        THEN [touched EXCEPT ![partner].setpointWorkState = (processDataValue = Word(1))]
        ELSE touched

\* on_value_command on the client store: the store afterwards.
on_value_command(cl, partner, dataDescriptionIndex, processDataValue) ==
    IF /\ dataDescriptionIndex >= ActualCondensedWorkState1_16
       /\ dataDescriptionIndex <= ActualCondensedWorkState241_256
    THEN LET sectionIndexOffset ==
                 (NUMBER_SECTIONS_PER_CONDENSED_MESSAGE *
                    ((dataDescriptionIndex - ActualCondensedWorkState1_16) % 256)) % 256
             touched == Touch(cl, partner, DefaultClientState)
         IN  [touched EXCEPT ![partner] =
                 UnpackActualStates(@, sectionIndexOffset, processDataValue, 0)]
    ELSE IF dataDescriptionIndex = SectionControlState
    THEN [Touch(cl, partner, DefaultClientState) EXCEPT
             ![partner].isSectionControlEnabled = (processDataValue = Word(1))]
    ELSE IF dataDescriptionIndex = ActualWorkState
    THEN [Touch(cl, partner, DefaultClientState) EXCEPT
             ![partner].setpointWorkState = (processDataValue = Word(1))]
    ELSE cl

\* The DDIs a partner sends value commands for (1 stands for every DDI the
\* switch of on_value_command has no case for).
ValueCommandDdis ==
    {ActualCondensedWorkState1_16 + k : k \in ReportedWindows}
        \cup {SectionControlState, ActualWorkState, 1}

ProcessDataValues(dataDescriptionIndex) ==
    IF dataDescriptionIndex \in {SectionControlState, ActualWorkState}
    THEN FlagValues
    ELSE CondensedValues

OnValueCommand ==
    /\ UNCHANGED running
    /\ pc = "tc"
    /\ UNCHANGED udpVars
    /\ events < MaxEvents
    /\ \E partner \in Partners, dataDescriptionIndex \in ValueCommandDdis :
       \E processDataValue \in ProcessDataValues(dataDescriptionIndex) :
          /\ clients' = on_value_command(clients, partner, dataDescriptionIndex,
                                         processDataValue)
          /\ lastOp' = [op |-> "on_value_command", partner |-> partner,
                        ddi |-> dataDescriptionIndex, value |-> processDataValue,
                        result |-> TRUE]
    /\ events' = events + 1
    /\ Quiet
    /\ UNCHANGED <<uploadedPools, configuredSubnet, lastHeartbeatTransmit, now, pc,
                   activated, timedOut>>

\* A return from the TC update that goes straight to the next iteration.
TcUpdateReturn_skipping_heartbeat ==
    /\ UNCHANGED running
    /\ pc = "tc"
    /\ UNCHANGED udpVars
    /\ pc' = "detect"
    /\ lastOp' = [op |-> "tc_update"]
    /\ Quiet
    /\ UNCHANGED <<clients, uploadedPools, configuredSubnet, lastHeartbeatTransmit, now,
                   activated, timedOut, events>>

TcUpdateReturn ==
    /\ UNCHANGED running
    /\ pc = "tc"
    /\ UNCHANGED udpVars
    /\ pc' = "heartbeat"
    /\ lastOp' = [op |-> "tc_update"]
    /\ Quiet
    /\ UNCHANGED <<clients, uploadedPools, configuredSubnet, lastHeartbeatTransmit, now,
                   activated, timedOut, events>>

\* Steps 5 and 6: the speed interface update (no state of the server) and
\* the heartbeat check against the clock as it reads now.
HeartbeatStep ==
    /\ UNCHANGED running
    /\ pc = "heartbeat"
    /\ UNCHANGED udpVars
    /\ pc' = "detect"
    /\ \E advance \in ClockAdvances :
          /\ now + advance <= MaxTicks * 50
          /\ now' = now + advance
    /\ IF time_expired_ms(lastHeartbeatTransmit, HeartbeatIntervalMs, now')
       THEN /\ udpOut' = SendAll(configuredSubnet, Heartbeats(clients, 1, <<>>))
            /\ lastHeartbeatTransmit' = now'
            /\ lastOp' = [op |-> "heartbeat", expired |-> TRUE]
       ELSE /\ udpOut' = <<>>
            /\ UNCHANGED lastHeartbeatTransmit
            /\ lastOp' = [op |-> "heartbeat", expired |-> FALSE]
    /\ canOut' = <<>>
    /\ UNCHANGED <<clients, uploadedPools, configuredSubnet, activated, timedOut, events>>

Next ==
    \/ HandleAddressDetection
    \/ HandleIncomingPackets
    \/ RequestMeasurementCommands
    \/ StoreDeviceDescriptorObjectPool
    \/ ActivateObjectPool
    \/ DeactivateObjectPool
    \/ DeleteDeviceDescriptorObjectPool
    \/ OnClientTimeout
    \/ OnValueCommand
    \/ TcUpdateReturn
    \/ HeartbeatStep

Spec == Init /\ [][Next]_vars

\* ------------------------------------------ update_section_states on its own
\* update_section_states applied, up to MaxCalls times, to the store of one
\* activated client whose measurement commands were requested, for desired
\* vectors that need not have the sixteen entries the packet handler builds.
SetpointSections == {3, 16, 17, 20}
DesiredLengths == {16, 20}
DesiredVectors ==
    UNION {{[i \in 1..len |-> i <= t] : t \in {0, 1, 16, 17}}
              \cup {[i \in 1..len |-> i = t] : t \in {1, 17}}
              \cup {[i \in 1..len |-> i \in {1, 17}]}
           : len \in DesiredLengths}

SetpointClients(numberOfSections, enabled) ==
    LET activatedStore == Put(<<>>, PartnerOrder[1], ActivatedState(numberOfSections))
        requested == request_measurement_commands(activatedStore, 1, <<>>).clients
    IN  update_section_control_enabled(requested, enabled, 1, <<>>).clients

SetpointInit ==
    /\ running = TRUE
    /\ \E numberOfSections \in SetpointSections, enabled \in BOOLEAN :
          clients = SetpointClients(numberOfSections, enabled)
    /\ uploadedPools = <<>>
    /\ configuredSubnet = DEFAULT_SUBNET
    /\ lastHeartbeatTransmit = 0
    /\ now = 0
    /\ pc = "pump"
    /\ canOut = <<>>
    /\ udpOut = <<>>
    /\ lastOp = [op |-> "init"]
    /\ activated = {PartnerOrder[1]}
    /\ timedOut = {}
    /\ events = 0
    /\ rxDetect = [mem |-> <<>>, rxIndex |-> 0]
    /\ rxMain = [mem |-> <<>>, rxIndex |-> 0]
    /\ savedSubnet = <<>>
    /\ mainSocket = DEFAULT_SUBNET
    /\ lastAnnounced = <<>>

SetpointCall ==
    /\ UNCHANGED running
    /\ events < MaxCalls
    /\ \E sectionStates \in DesiredVectors :
          LET r == update_section_states(clients, sectionStates, 1, <<>>)
          IN  /\ clients' = r.clients
              /\ canOut' = r.out
              /\ lastOp' = [op |-> "update_section_states",
                            sectionStates |-> sectionStates]
    /\ events' = events + 1
    /\ UNCHANGED <<uploadedPools, configuredSubnet, lastHeartbeatTransmit, now, pc, udpOut,
                   activated, timedOut, udpVars>>

SetpointNext == SetpointCall

SetpointSpec == SetpointInit /\ [][SetpointNext]_vars

\* --------------------------------------------- the main-socket pump on its own
\* handle_incoming_packets with the packet handler of Application::initialize,
\* for datagrams AOG sends to the main socket one per pump call, and a store
\* of one or two activated clients.
SectionControlDatagram(enable) == send(DEFAULT_SUBNET, AgioSrc, 241, <<enable>>).bytes
SteerDataDatagram(bitmap) ==
    send(DEFAULT_SUBNET, AgioSrc, 254, <<0, 0, 0, 0, 0, 127, bitmap[1], bitmap[2]>>).bytes
\* Two frames back to back in one datagram, of different and of equal lengths.
BackToBackDatagrams ==
    {SectionControlDatagram(1) \o SteerDataDatagram(<<1, 0>>),
     SteerDataDatagram(<<1, 0>>) \o SectionControlDatagram(1),
     SteerDataDatagram(<<1, 0>>) \o SteerDataDatagram(<<5, 128>>)}

\* Eight bytes whose header declares a payload of 250 bytes.
LongLengthDatagram == <<128, 129, 127, 254, 250, 0, 0, 0>>

\* Bytes that do not begin with 0x80 0x81, three of them and eight, and a
\* well-formed frame whose PGN the packet handler does not know.
ShortMalformedDatagram == <<0, 0, 0>>
MalformedDatagram == <<0, 0, 127, 241, 1, 1, 114, 0>>
UnknownPgnDatagram == send(DEFAULT_SUBNET, AgioSrc, 200, <<1, 2, 3>>).bytes

\* A Steer Data frame cut off after three of its eight payload bytes, and a
\* complete Steer Data frame with a payload of two bytes.
TruncatedSteerDatagram == <<128, 129, 127, 254, 8, 0, 0, 0>>
ShortPayloadSteerDatagram == send(DEFAULT_SUBNET, AgioSrc, 254, <<1, 0>>).bytes

MainDatagrams ==
    {SectionControlDatagram(enable) : enable \in {0, 1}}
        \cup {SteerDataDatagram(bitmap) : bitmap \in SteerBitmaps}
        \cup BackToBackDatagrams
        \cup {LongLengthDatagram}
        \cup {ShortMalformedDatagram, MalformedDatagram, UnknownPgnDatagram}
        \cup {TruncatedSteerDatagram, ShortPayloadSteerDatagram}
        \cup {SubnetAnnouncement}

\* An announcement whose second magic byte is wrong.
WrongMagicDatagram == <<128, 129, 127, 201, 5, 201, 0, 16, 32, 48, 118>>

\* Datagrams on the discovery socket: those of the event loop, a Steer Data
\* frame, the wrong magic byte and the long declared length.
DetectDatagrams ==
    DiscoveryDatagrams
        \cup {SteerDataDatagram(<<1, 0>>), WrongMagicDatagram, LongLengthDatagram}

\* Byte n (from 0) of a payload; a read past its end finds the byte beyond.
PayloadByte(data, n, beyond) == IF n < Len(data) THEN data[n + 1] ELSE beyond

\* The packet handler for one dispatched frame: the client store afterwards
\* and the commands handed to the CAN stack.
packetHandler(cl, frame, beyond) ==
    IF frame.src = 127 /\ frame.pgn = 254
    THEN update_section_states(cl,
             SteerSectionStates(<<PayloadByte(frame.data, 6, beyond),
                                  PayloadByte(frame.data, 7, beyond)>>), 1, <<>>)
    ELSE IF frame.src = 127 /\ frame.pgn = 241
    THEN update_section_control_enabled(cl, PayloadByte(frame.data, 0, beyond) = 1, 1, <<>>)
    ELSE [clients |-> cl, out |-> <<>>]

\* The packet handler invoked for each dispatched frame in turn.
RECURSIVE DispatchLoop(_, _, _, _, _)
DispatchLoop(cl, frames, n, beyond, out) ==
    IF n > Len(frames)
    THEN [clients |-> cl, out |-> out]
    ELSE LET r == packetHandler(cl, frames[n], beyond)
         IN  DispatchLoop(r.clients, frames, n + 1, beyond, out \o r.out)

\* What a read past a payload may find: nothing is read past one unless a
\* Steer Data frame is shorter than eight bytes or a Section Control frame
\* is empty.
BeyondBytes(frames) ==
    IF \E n \in 1..Len(frames) :
          \/ frames[n].src = 127 /\ frames[n].pgn = 254 /\ Len(frames[n].data) < 8
          \/ frames[n].src = 127 /\ frames[n].pgn = 241 /\ Len(frames[n].data) < 1
    THEN {0, 255}
    ELSE {0}

\* Both partners activated, their measurement commands requested, and each
\* having reported its section control state.
TwoClientStore(sections1, enabled1, sections2, enabled2) ==
    LET activatedStore == Put(Put(<<>>, PartnerOrder[1], ActivatedState(sections1)),
                              PartnerOrder[2], ActivatedState(sections2))
        requested == request_measurement_commands(activatedStore, 1, <<>>).clients
        reported1 == on_value_command(requested, PartnerOrder[1], SectionControlState,
                                      Word(IF enabled1 THEN 1 ELSE 0))
    IN  on_value_command(reported1, PartnerOrder[2], SectionControlState,
                         Word(IF enabled2 THEN 1 ELSE 0))

PumpSections == {3, 17}
PumpStores ==
    {SetpointClients(3, FALSE)}
        \cup {TwoClientStore(sections1, enabled1, sections2, enabled2) :
                 sections1 \in PumpSections, enabled1 \in BOOLEAN,
                 sections2 \in PumpSections, enabled2 \in BOOLEAN}

PumpInit ==
    /\ running = TRUE
    /\ clients \in PumpStores
    /\ uploadedPools = <<>>
    /\ configuredSubnet = DEFAULT_SUBNET
    /\ lastHeartbeatTransmit = 0
    /\ now = 0
    /\ pc = "pump"
    /\ canOut = <<>>
    /\ udpOut = <<>>
    /\ lastOp = [op |-> "init"]
    /\ activated = DOMAIN clients
    /\ timedOut = {}
    /\ events = 0
    /\ rxDetect = [mem |-> <<>>, rxIndex |-> 0]
    /\ rxMain = [mem |-> <<>>, rxIndex |-> 0]
    /\ savedSubnet = <<>>
    /\ mainSocket = DEFAULT_SUBNET
    /\ lastAnnounced = <<>>

\* One pump call that receives a datagram.
PumpReceive ==
    /\ UNCHANGED running
    /\ pc = "pump"
    /\ events < MaxDatagrams
    /\ \E datagram \in MainDatagrams, order \in StartReadOrders :
          LET r == handle_incoming_packets(rxMain, datagram, order)
          IN  /\ rxMain' = [mem |-> r.mem, rxIndex |-> r.rxIndex]
              /\ pc' = IF r.returned THEN "pump" ELSE "pump_stuck"
              /\ \E beyond \in BeyondBytes(r.frames) :
                    LET d == DispatchLoop(clients, r.frames, 1, beyond, <<>>)
                    IN  /\ clients' = d.clients
                        /\ canOut' = d.out
              /\ lastOp' = [op |-> "handle_incoming_packets", datagram |-> datagram,
                            buffered |-> rxMain.rxIndex, dispatched |-> r.frames,
                            returned |-> r.returned]
    /\ events' = events + 1
    /\ UNCHANGED <<uploadedPools, configuredSubnet, lastHeartbeatTransmit, now, udpOut,
                   activated, timedOut, rxDetect, savedSubnet, mainSocket, lastAnnounced>>

\* One call of handle_address_detection that receives a datagram: the
\* announcements its loop recognises are committed, saved and the main
\* socket rebound as they are met, whether or not the loop comes to an end.
PumpDetect ==
    /\ UNCHANGED running
    /\ pc = "pump"
    /\ events < MaxDatagrams
    /\ \E datagram \in DetectDatagrams, order \in StartReadOrders :
          LET r == handle_address_detection(rxDetect, datagram, order)
              n == Len(r.subnets)
          IN  /\ rxDetect' = [mem |-> r.mem, rxIndex |-> r.rxIndex]
              /\ pc' = IF r.returned THEN "pump" ELSE "detect_stuck"
              /\ configuredSubnet' = IF n > 0 THEN r.subnets[n] ELSE configuredSubnet
              /\ savedSubnet' = IF n > 0 THEN r.subnets[n] ELSE savedSubnet
              /\ mainSocket' = IF n > 0 THEN r.subnets[n] ELSE mainSocket
              /\ lastAnnounced' = IF ValidAnnouncement(datagram)
                                  THEN SubSeq(datagram, 8, 10) ELSE lastAnnounced
              /\ lastOp' = [op |-> "handle_address_detection", datagram |-> datagram,
                            buffered |-> rxDetect.rxIndex, subnets |-> r.subnets,
                            returned |-> r.returned]
    /\ events' = events + 1
    /\ canOut' = <<>>
    /\ UNCHANGED <<clients, uploadedPools, lastHeartbeatTransmit, now, udpOut,
                   activated, timedOut, rxMain>>

PumpNext == PumpReceive \/ PumpDetect

PumpSpec == PumpInit /\ [][PumpNext]_vars

\* ------------------------------------------- the speed of Steer Data on its own
\* The packet handler's conversion of the speed in payload bytes 0 and 1:
\* std::uint16_t speed = data[0] | (data[1] << 8); speed *= 1000 / 36; the
\* factor is an integer division and the product is stored back into the
\* 16-bit variable that is handed to set_machine_speed.
SteerSpeed(data) ==
    LET speed == data[1] + 256 * data[2]
    IN  (speed * (1000 \div 36)) % 65536

\* Speeds in tenths of km/h: the low range and values around the places
\* where 16 bits run out.
SpeedValues == (0..120) \cup {360, 2359, 2360, 2427, 2428, 65535}

SpeedInit ==
    /\ running = TRUE
    /\ clients = <<>>
    /\ uploadedPools = <<>>
    /\ configuredSubnet = DEFAULT_SUBNET
    /\ lastHeartbeatTransmit = 0
    /\ now = 0
    /\ pc = "dispatch"
    /\ canOut = <<>>
    /\ udpOut = <<>>
    /\ \E speed \in SpeedValues : lastOp = [op |-> "steer_input", speed |-> speed]
    /\ activated = {}
    /\ timedOut = {}
    /\ events = 0
    /\ rxDetect = [mem |-> <<>>, rxIndex |-> 0]
    /\ rxMain = [mem |-> <<>>, rxIndex |-> 0]
    /\ savedSubnet = <<>>
    /\ mainSocket = DEFAULT_SUBNET
    /\ lastAnnounced = <<>>

\* The packet handler invoked with a Steer Data frame that carries the speed.
SpeedDispatch ==
    /\ UNCHANGED running
    /\ pc = "dispatch"
    /\ pc' = "dispatched"
    /\ LET data == <<lastOp.speed % 256, lastOp.speed \div 256, 0, 0, 0, 127, 0, 0>>
           r    == packetHandler(clients, [src |-> 127, pgn |-> 254, data |-> data], 0)
       IN  /\ clients' = r.clients
           /\ canOut' = r.out
           /\ lastOp' = [op |-> "packetHandler", speed |-> lastOp.speed,
                         machineSpeed |-> SteerSpeed(data)]
    /\ UNCHANGED <<uploadedPools, configuredSubnet, lastHeartbeatTransmit, now, udpOut,
                   activated, timedOut, events, udpVars>>

SpeedNext == SpeedDispatch

SpeedSpec == SpeedInit /\ [][SpeedNext]_vars

\* ------------------------------------------------- the main loop and shutdown
\* WinMain: while (running) { dispatch the window messages; app.update(); }
\* app.stop(). No ISOBUS partner is on the bus, so the TC update invokes no
\* hook; AOG may send a datagram to either socket in any iteration. An empty
\* datagram stands for a socket on which nothing is waiting.
ShutdownDetectDatagrams == {<<>>, SubnetAnnouncement, LongLengthDatagram}
ShutdownMainDatagrams == {<<>>, SteerDataDatagram(<<1, 0>>), LongLengthDatagram}

ShutdownInit ==
    /\ running = TRUE
    /\ clients = <<>>
    /\ uploadedPools = <<>>
    /\ configuredSubnet = DEFAULT_SUBNET
    /\ lastHeartbeatTransmit = 0
    /\ now = 0
    /\ pc = "head"
    /\ canOut = <<>>
    /\ udpOut = <<>>
    /\ lastOp = [op |-> "init"]
    /\ activated = {}
    /\ timedOut = {}
    /\ events = 0
    /\ rxDetect = [mem |-> <<>>, rxIndex |-> 0]
    /\ rxMain = [mem |-> <<>>, rxIndex |-> 0]
    /\ savedSubnet = <<>>
    /\ mainSocket = DEFAULT_SUBNET
    /\ lastAnnounced = <<>>

\* while (running)
LoopTest ==
    /\ pc = "head"
    /\ IF running
       THEN events < MaxIterations /\ pc' = "peek"
       ELSE pc' = "stop"
    /\ lastOp' = [op |-> "loop_test", running |-> running]
    /\ Quiet
    /\ UNCHANGED <<clients, uploadedPools, configuredSubnet, lastHeartbeatTransmit, now,
                   activated, timedOut, events, udpVars, running>>

\* The inner PeekMessage loop: the messages waiting are dispatched to WndProc
\* on this thread, WM_CLOSE among them or not.
PeekMessages ==
    /\ pc = "peek"
    /\ pc' = "update"
    /\ \E close \in BOOLEAN :
          /\ running' = IF close THEN FALSE ELSE running
          /\ lastOp' = [op |-> "peek_messages", close |-> close]
    /\ Quiet
    /\ UNCHANGED <<clients, uploadedPools, configuredSubnet, lastHeartbeatTransmit, now,
                   activated, timedOut, events, udpVars>>

\* app.update(): both pumps, request_measurement_commands, the TC and
\* interface updates and the heartbeat check. A pump whose parse loop does
\* not come to an end keeps the call from returning.
ApplicationUpdate ==
    /\ pc = "update"
    /\ \E detected \in ShutdownDetectDatagrams, received \in ShutdownMainDatagrams,
          order \in StartReadOrders, advance \in ClockAdvances :
          \E d \in {IF detected = <<>>
                    THEN [mem |-> rxDetect.mem, rxIndex |-> rxDetect.rxIndex,
                          subnets |-> <<>>, returned |-> TRUE]
                    ELSE handle_address_detection(rxDetect, detected, order)} :
          \E m \in {IF ~d.returned \/ received = <<>>
                    THEN [mem |-> rxMain.mem, rxIndex |-> rxMain.rxIndex,
                          frames |-> <<>>, returned |-> TRUE]
                    ELSE handle_incoming_packets(rxMain, received, order)} :
          \E dispatched \in {DispatchLoop(clients, m.frames, 1, 0, <<>>)} :
          \E requested \in {IF m.returned
                            THEN request_measurement_commands(
                                     dispatched.clients, 1, dispatched.out)
                            ELSE dispatched} :
          LET n        == Len(d.subnets)
              returned == d.returned /\ m.returned
              subnet   == IF n > 0 THEN d.subnets[n] ELSE configuredSubnet
          IN  /\ now + advance <= MaxTicks * 50
              /\ now' = now + advance
              /\ rxDetect' = [mem |-> d.mem, rxIndex |-> d.rxIndex]
              /\ rxMain' = [mem |-> m.mem, rxIndex |-> m.rxIndex]
              /\ configuredSubnet' = subnet
              /\ savedSubnet' = IF n > 0 THEN d.subnets[n] ELSE savedSubnet
              /\ mainSocket' = IF n > 0 THEN d.subnets[n] ELSE mainSocket
              /\ lastAnnounced' = IF ValidAnnouncement(detected)
                                  THEN SubSeq(detected, 8, 10) ELSE lastAnnounced
              /\ clients' = requested.clients
              /\ canOut' = requested.out
              /\ IF returned /\ time_expired_ms(lastHeartbeatTransmit,
                                                 HeartbeatIntervalMs, now')
                 THEN /\ udpOut' = SendAll(subnet, Heartbeats(requested.clients, 1, <<>>))
                      /\ lastHeartbeatTransmit' = now'
                 ELSE /\ udpOut' = <<>>
                      /\ UNCHANGED lastHeartbeatTransmit
              /\ pc' = IF returned THEN "head" ELSE "update_stuck"
              /\ lastOp' = [op |-> "update", detected |-> detected,
                            received |-> received, returned |-> returned]
    /\ events' = events + 1
    /\ UNCHANGED <<uploadedPools, activated, timedOut, running>>

\* Application::stop, first statement: tcServer->terminate()
StopTerminate ==
    /\ pc = "stop"
    /\ pc' = "can_stop"
    /\ lastOp' = [op |-> "terminate"]
    /\ Quiet
    /\ UNCHANGED <<clients, uploadedPools, configuredSubnet, lastHeartbeatTransmit, now,
                   activated, timedOut, events, udpVars, running>>

\* Application::stop, second statement: isobus::CANHardwareInterface::stop()
StopCan ==
    /\ pc = "can_stop"
    /\ pc' = "stopped"
    /\ lastOp' = [op |-> "can_stop"]
    /\ Quiet
    /\ UNCHANGED <<clients, uploadedPools, configuredSubnet, lastHeartbeatTransmit, now,
                   activated, timedOut, events, udpVars, running>>

ShutdownNext ==
    \/ LoopTest
    \/ PeekMessages
    \/ ApplicationUpdate
    \/ StopTerminate
    \/ StopCan

ShutdownSpec == ShutdownInit /\ [][ShutdownNext]_vars

\* ------------------------------------------------ the settings file on its own
\* What Settings::load may find on disk: no file, content that is not a JSON
\* document, or a document with or without the key "subnet", whose value is
\* a string or an array of integers.
SubnetOctets == {1, 16, 192, 255, 300}
SubnetArrays ==
    {<<a, b>> : a, b \in SubnetOctets}
        \cup {<<a, b, c>> : a, b, c \in SubnetOctets}
SettingsFiles ==
    {[kind |-> "missing", hasSubnet |-> FALSE, subnetType |-> "none", subnet |-> <<>>],
     [kind |-> "unparseable", hasSubnet |-> FALSE, subnetType |-> "none", subnet |-> <<>>],
     [kind |-> "document", hasSubnet |-> FALSE, subnetType |-> "none", subnet |-> <<>>],
     [kind |-> "document", hasSubnet |-> TRUE, subnetType |-> "string", subnet |-> <<>>]}
        \cup {[kind |-> "document", hasSubnet |-> TRUE, subnetType |-> "array",
                subnet |-> a] : a \in SubnetArrays}

\* Settings::load on the file, for a Settings object whose subnet is current.
\* operator>> throws on content that is not a document; nothing between it
\* and the entry point catches, so the process is terminated. The array is
\* read as three int and copied into the std::uint8_t array.
load(file, current) ==
    IF file.kind = "missing"
    THEN [terminated |-> FALSE, result |-> FALSE, configuredSubnet |-> current]
    ELSE IF file.kind = "unparseable"
    THEN [terminated |-> TRUE, result |-> FALSE, configuredSubnet |-> current]
    ELSE IF file.hasSubnet
    THEN IF file.subnetType = "array" /\ Len(file.subnet) >= 3
         THEN [terminated |-> FALSE, result |-> TRUE,
               configuredSubnet |-> [i \in 1..3 |-> file.subnet[i] % 256]]
         ELSE [terminated |-> FALSE, result |-> TRUE, configuredSubnet |-> DEFAULT_SUBNET]
    ELSE [terminated |-> FALSE, result |-> TRUE, configuredSubnet |-> DEFAULT_SUBNET]

SettingsInit ==
    /\ running = TRUE
    /\ clients = <<>>
    /\ uploadedPools = <<>>
    /\ configuredSubnet = DEFAULT_SUBNET
    /\ lastHeartbeatTransmit = 0
    /\ now = 0
    /\ pc = "load"
    /\ canOut = <<>>
    /\ udpOut = <<>>
    /\ \E file \in SettingsFiles : lastOp = [op |-> "settings_file", file |-> file]
    /\ activated = {}
    /\ timedOut = {}
    /\ events = 0
    /\ rxDetect = [mem |-> <<>>, rxIndex |-> 0]
    /\ rxMain = [mem |-> <<>>, rxIndex |-> 0]
    /\ savedSubnet = <<>>
    /\ mainSocket = DEFAULT_SUBNET
    /\ lastAnnounced = <<>>

\* Application::initialize calls settings->load() first.
SettingsLoad ==
    /\ UNCHANGED running
    /\ pc = "load"
    /\ LET r == load(lastOp.file, configuredSubnet)
       IN  /\ configuredSubnet' = r.configuredSubnet
           /\ pc' = IF r.terminated THEN "terminated" ELSE "loaded"
           /\ lastOp' = [op |-> "load", file |-> lastOp.file, result |-> r.result]
    /\ UNCHANGED <<clients, uploadedPools, lastHeartbeatTransmit, now, canOut, udpOut,
                   activated, timedOut, events, udpVars>>

SettingsNext == SettingsLoad

SettingsSpec == SettingsInit /\ [][SettingsNext]_vars

\* ------------------------------------------------- the frame codec on its own
\* send applied to a source, a PGN and a payload, and the emitted datagram
\* fed to the receive loop of the main socket, whose buffer is empty.
CodecSources == {127, 128}
CodecPgns == {240, 241, 254}
PayloadLengths == 0..255
Payload(length) == [n \in 1..length |-> (length + 3 * n) % 256]

CodecInit ==
    /\ running = TRUE
    /\ clients = <<>>
    /\ uploadedPools = <<>>
    /\ configuredSubnet = DEFAULT_SUBNET
    /\ lastHeartbeatTransmit = 0
    /\ now = 0
    /\ pc = "send"
    /\ canOut = <<>>
    /\ udpOut = <<>>
    /\ \E src \in CodecSources, pgn \in CodecPgns, length \in PayloadLengths :
          lastOp = [op |-> "codec_input", src |-> src, pgn |-> pgn,
                    data |-> Payload(length)]
    /\ activated = {}
    /\ timedOut = {}
    /\ events = 0
    /\ rxDetect = [mem |-> <<>>, rxIndex |-> 0]
    /\ rxMain = [mem |-> <<>>, rxIndex |-> 0]
    /\ savedSubnet = <<>>
    /\ mainSocket = DEFAULT_SUBNET
    /\ lastAnnounced = <<>>

CodecSend ==
    /\ UNCHANGED running
    /\ pc = "send"
    /\ LET sent == send(configuredSubnet, lastOp.src, lastOp.pgn, lastOp.data)
       IN  IF sent.returned
           THEN /\ udpOut' = <<sent>>
                /\ pc' = "parse"
           ELSE /\ udpOut' = <<>>
                /\ pc' = "send_stuck"
    /\ lastOp' = [lastOp EXCEPT !.op = "send"]
    /\ UNCHANGED <<clients, uploadedPools, configuredSubnet, lastHeartbeatTransmit, now,
                   canOut, activated, timedOut, events, udpVars>>

CodecParse ==
    /\ UNCHANGED running
    /\ pc = "parse"
    /\ \E order \in StartReadOrders :
          LET r == handle_incoming_packets([mem |-> <<>>, rxIndex |-> 0],
                                           udpOut[1].bytes, order)
          IN  /\ lastOp' = [op |-> "handle_incoming_packets", src |-> lastOp.src,
                            pgn |-> lastOp.pgn, data |-> lastOp.data,
                            dispatched |-> r.frames]
              /\ pc' = IF r.returned THEN "parsed" ELSE "parse_stuck"
    /\ UNCHANGED <<clients, uploadedPools, configuredSubnet, lastHeartbeatTransmit, now,
                   canOut, udpOut, activated, timedOut, events, udpVars>>

CodecNext == CodecSend \/ CodecParse

CodecSpec == CodecInit /\ [][CodecNext]_vars

\* ------------------------------------------------------------------ claims
IsSetpointDdi(ddi) ==
    \/ ddi = SetpointWorkState
    \/ (ddi >= SetpointCondensedWorkState1_16 /\ ddi <= SetpointCondensedWorkState241_256)

IsCondensedSetpointDdi(ddi) ==
    ddi >= SetpointCondensedWorkState1_16 /\ ddi <= SetpointCondensedWorkState241_256

\* The SET-VALUEs among the commands of the last step that go to partner p on a
\* DDI satisfying the test, as the set of their positions in canOut.
SetValuesTo(out, p, ddi) ==
    {i \in 1..Len(out) : out[i].command = "set_value" /\ out[i].partner = p
                          /\ out[i].ddi = ddi}

\* Section i (counted from 0) is one where sectionStates asks for a change of
\* the client's setpoint.
Differs(st, sectionStates, i) ==
    /\ i < st.numberOfSections
    /\ i < Len(sectionStates)
    /\ sectionStates[i + 1] # (st.sectionSetpointStates[i + 1] = ON)

\* C1 (manual-mode silence): every SET-VALUE on a SetpointCondensedWorkState
\* DDI or on SetpointWorkState handed to the CAN stack goes to a client whose
\* section control is enabled; a call of update_section_states hands over none
\* for a client that is in manual mode.
C1_ManualModeSilence ==
    \A i \in 1..Len(canOut) :
        (canOut[i].command = "set_value" /\ IsSetpointDdi(canOut[i].ddi))
            => /\ canOut[i].partner \in DOMAIN clients
               /\ clients[canOut[i].partner].isSectionControlEnabled

\* update_section_states ran with a change pending for a client that is in
\* manual mode.
C1_Witness ==
    /\ lastOp.op = "update_section_states"
    /\ \E p \in DOMAIN clients :
          /\ ~clients[p].isSectionControlEnabled
          /\ \E i \in 0..15 : Differs(clients[p], lastOp.sectionStates, i)
          /\ \A i \in 1..Len(canOut) : canOut[i].partner # p

\* C2 (auto-mode flush), as claimed: after update_section_states(desired),
\* for every client with section control enabled, every 16-section window
\* with a differing index got exactly one SET-VALUE on base + k carrying the
\* packed setpoints of that window after the diff, every other window none.
C2_AutoModeFlush ==
    [][lastOp'.op = "update_section_states" =>
        \A p \in DOMAIN clients :
            clients[p].isSectionControlEnabled =>
                \A k \in 0..15 :
                    LET dirty == \E j \in 0..15 :
                                    Differs(clients[p], lastOp'.sectionStates, 16 * k + j)
                        sent == SetValuesTo(canOut', p, SetpointCondensedWorkState1_16 + k)
                    IN  IF dirty
                        THEN /\ Cardinality(sent) = 1
                             /\ \A i \in sent :
                                   canOut'[i].value =
                                       PackSetpoints(clients'[p], 16 * k, 0, Word(0))
                        ELSE sent = {}
      ]_vars

\* C3 (section-vector invariant): every ClientState in the client store has
\* both section vectors as long as its number of sections.
C3_SectionVectors ==
    \A p \in DOMAIN clients :
        /\ Len(clients[p].sectionSetpointStates) = clients[p].numberOfSections
        /\ Len(clients[p].sectionActualStates) = clients[p].numberOfSections

\* A sixteen-section client after update_section_states next to a client
\* that on_value_command inserted.
C3_Witness ==
    /\ lastOp.op \in {"update_section_states", "on_value_command"}
    /\ \E p \in DOMAIN clients : clients[p].numberOfSections = 16
    /\ \E p \in DOMAIN clients : p \notin activated

\* C4 (bounded writes): on every ClientState of the client store, for a
\* section index at or past number_of_sections both setters return the state
\* as it was and both getters return NOT_INSTALLED; for an index below it a
\* write followed by a read gives the written state.
C4_BoundedWrites ==
    \A p \in DOMAIN clients :
        LET st == clients[p]
        IN  \A i \in (0..(st.numberOfSections + 1)) \cup {31, 255},
               s \in {OFF, ON, ERROR_SATE, NOT_INSTALLED} :
                IF i >= st.numberOfSections
                THEN /\ set_section_setpoint_state(st, i, s) = st
                     /\ set_section_actual_state(st, i, s) = st
                     /\ get_section_setpoint_state(st, i) = NOT_INSTALLED
                     /\ get_section_actual_state(st, i) = NOT_INSTALLED
                ELSE /\ get_section_setpoint_state(
                            set_section_setpoint_state(st, i, s), i) = s
                     /\ get_section_actual_state(
                            set_section_actual_state(st, i, s), i) = s

\* on_value_command unpacked a full window into a three-section client: the
\* writes to sections 0..2 landed, the writes to sections 3..15 were ignored.
C4_Witness ==
    /\ lastOp.op = "on_value_command"
    /\ lastOp.ddi = ActualCondensedWorkState1_16
    /\ lastOp.value = [hi |-> 43690, lo |-> 6]
    /\ lastOp.partner \in DOMAIN clients
    /\ clients[lastOp.partner].numberOfSections = 3
    /\ clients[lastOp.partner].sectionActualStates = <<ERROR_SATE, ON, OFF>>

\* Bits 2j..2j+1 of the 32-bit value v.
BitsAt(v, j) ==
    LET half == IF j < 8 THEN v.lo ELSE v.hi
        low  == 2 * (j % 8)
    IN  (IF (half \div (2 ^ low)) % 2 = 1 THEN 1 ELSE 0)
            + (IF (half \div (2 ^ (low + 1))) % 2 = 1 THEN 2 ELSE 0)

\* C5 (actual-state unpacking): on_value_command with the k-th
\* ActualCondensedWorkState DDI and value v for a partner in the client store
\* sets the actual state of every section 16k+j below number_of_sections to
\* bits 2j..2j+1 of v, writes nothing at or past number_of_sections, and
\* leaves the other actual states, the setpoint states, the section control
\* mode and the work-state flags as they were.
C5_ActualStateUnpacking ==
    [][(/\ lastOp'.op = "on_value_command"
        /\ lastOp'.ddi >= ActualCondensedWorkState1_16
        /\ lastOp'.ddi <= ActualCondensedWorkState241_256
        /\ lastOp'.partner \in DOMAIN clients) =>
          LET p   == lastOp'.partner
              k   == lastOp'.ddi - ActualCondensedWorkState1_16
              old == clients[p]
              new == clients'[p]
          IN  /\ p \in DOMAIN clients'
              /\ new.numberOfSections = old.numberOfSections
              /\ Len(new.sectionActualStates) = Len(old.sectionActualStates)
              /\ \A n \in 0..(Len(old.sectionActualStates) - 1) :
                    new.sectionActualStates[n + 1] =
                        IF n \div 16 = k
                        THEN BitsAt(lastOp'.value, n % 16)
                        ELSE old.sectionActualStates[n + 1]
              /\ new.sectionSetpointStates = old.sectionSetpointStates
              /\ new.isSectionControlEnabled = old.isSectionControlEnabled
              /\ new.setpointWorkState = old.setpointWorkState
              /\ new.actualWorkState = old.actualWorkState
      ]_vars

\* The second window was reported to a seventeen-section client: section 16
\* took bits 0..1 of the value, sections 0..15 kept their states.
C5_Witness ==
    /\ lastOp.op = "on_value_command"
    /\ lastOp.ddi = ActualCondensedWorkState1_16 + 1
    /\ lastOp.value = [hi |-> 43690, lo |-> 6]
    /\ lastOp.partner \in DOMAIN clients
    /\ clients[lastOp.partner].numberOfSections = 17
    /\ clients[lastOp.partner].sectionActualStates =
           [n \in 1..17 |-> IF n = 17 THEN ERROR_SATE ELSE OFF]

\* C6 (heartbeat payload): every heartbeat is an AOG packet from source 0x80
\* with PGN 0xF0 whose payload is the section control mode as 0 or 1, the
\* number of sections N and exactly ceil(N / 8) bytes in which bit (i mod 8)
\* of byte floor(i / 8) is set iff section i is below N and its actual state
\* is ON.
C6_HeartbeatPayload ==
    \A h \in 1..Len(udpOut) :
        LET packet == udpOut[h]
        IN  /\ packet.src = 128
            /\ packet.pgn = 240
            /\ packet.client \in DOMAIN clients
            /\ LET st    == clients[packet.client]
                   N     == st.numberOfSections
                   bytes == (N + 7) \div 8
               IN  /\ Len(packet.data) = 2 + bytes
                   /\ packet.data[1] = (IF st.isSectionControlEnabled THEN 1 ELSE 0)
                   /\ packet.data[2] = N
                   /\ \A b \in 0..(bytes - 1) :
                         /\ packet.data[3 + b] \in 0..255
                         /\ \A bit \in 0..7 :
                               ((packet.data[3 + b] \div (2 ^ bit)) % 2 = 1)
                                   <=> (/\ 8 * b + bit < N
                                        /\ st.sectionActualStates[8 * b + bit + 1] = ON)

\* The heartbeat of a three-section client in manual mode whose implement
\* reported sections 0 and 1 ON and section 2 OFF.
C6_Witness ==
    /\ lastOp.op = "heartbeat"
    /\ \E h \in 1..Len(udpOut) :
          /\ udpOut[h].data = <<0, 3, 3>>
          /\ clients[udpOut[h].client].sectionActualStates = <<ON, ON, OFF>>
          /\ ~clients[udpOut[h].client].isSectionControlEnabled

\* C7 (heartbeat cadence): the heartbeat step of an iteration in which at
\* least 100 ms have elapsed since the recorded last-heartbeat time emits
\* exactly one heartbeat for each client in the client store, in manual or in
\* auto mode, and nothing else, and records now as the last-heartbeat time;
\* every other step emits no heartbeat and leaves the recorded time alone.
C7_HeartbeatCadence ==
    [][IF pc = "heartbeat" /\ now' - lastHeartbeatTransmit >= 100
       THEN /\ \A p \in DOMAIN clients :
                  Cardinality({h \in 1..Len(udpOut') : udpOut'[h].client = p}) = 1
            /\ \A h \in 1..Len(udpOut') :
                  /\ udpOut'[h].client \in DOMAIN clients
                  /\ udpOut'[h].pgn = 240
            /\ lastHeartbeatTransmit' = now'
       ELSE /\ udpOut' = <<>>
            /\ lastHeartbeatTransmit' = lastHeartbeatTransmit
      ]_vars

\* A heartbeat round at exactly 100 ms with a client in manual mode and a
\* client in auto mode in the store: one heartbeat each.
C7_Witness ==
    /\ lastOp.op = "heartbeat"
    /\ lastOp.expired
    /\ now = 100
    /\ lastHeartbeatTransmit = 100
    /\ Len(udpOut) = 2
    /\ \E p, q \in DOMAIN clients :
          /\ clients[p].isSectionControlEnabled
          /\ ~clients[q].isSectionControlEnabled
          /\ udpOut[1].client = p
          /\ udpOut[2].client = q

\* C8 (timeout cleanup), as claimed: a partner whose latest lifecycle event
\* is on_client_timeout has no ClientState, and no heartbeat and no SET-VALUE
\* is emitted for it, whatever callbacks were delivered for it since.
C8_TimeoutCleanup ==
    \A p \in timedOut :
        /\ p \notin DOMAIN clients
        /\ \A h \in 1..Len(udpOut) : udpOut[h].client # p
        /\ \A i \in 1..Len(canOut) :
              ~(canOut[i].command = "set_value" /\ canOut[i].partner = p)

\* C9 (activation failure leaves state alone): activate_object_pool returns
\* false when the partner has no chunk stored since its last activation
\* attempt and when the deserialiser rejects what was stored; whenever it
\* returns false the client store is exactly as it was.
C9_ActivationFailure ==
    [][lastOp'.op = "activate_object_pool" =>
          LET p     == lastOp'.partner
              queue == IF p \in DOMAIN uploadedPools THEN uploadedPools[p] ELSE <<>>
          IN  /\ (queue = <<>>) => (lastOp'.result = FALSE)
              /\ (\A c \in 1..Len(queue) : queue[c] = "invalid")
                    => (lastOp'.result = FALSE)
              /\ (lastOp'.result = FALSE) => (clients' = clients)
      ]_vars

\* A failed activation of a rejected chunk for a partner that holds a
\* ClientState from an earlier activation.
C9_Witness ==
    /\ lastOp.op = "activate_object_pool"
    /\ lastOp.result = FALSE
    /\ lastOp.chunks = <<"invalid">>
    /\ lastOp.partner \in DOMAIN clients
    /\ lastOp.partner \in activated
    /\ clients[lastOp.partner].numberOfSections = 3

\* C10 (multi-part upload), as claimed: activate_object_pool succeeds and
\* installs a ClientState whenever the deserialiser accepts at least one of
\* the partner's stored chunks, wherever that chunk is in the sequence.
C10_MultiPartUpload ==
    (/\ lastOp.op = "activate_object_pool"
     /\ \E c \in 1..Len(lastOp.chunks) : lastOp.chunks[c] = "valid")
        => (/\ lastOp.result = TRUE
            /\ lastOp.partner \in DOMAIN clients
            /\ lastOp.partner \in activated)

\* C11 (section count), as claimed: after a successful activate_object_pool
\* the partner's number_of_sections is the total number of sections found in
\* the geometry, for every total up to 256, and both section vectors have that
\* many entries, all OFF.
C11_SectionCount ==
    (lastOp.op = "activate_object_pool" /\ lastOp.result = TRUE) =>
        LET st == clients[lastOp.partner]
        IN  /\ st.numberOfSections = lastOp.sections
            /\ st.sectionSetpointStates = [n \in 1..lastOp.sections |-> OFF]
            /\ st.sectionActualStates = [n \in 1..lastOp.sections |-> OFF]

\* The DDIs of the actual side and of the setpoint side of the subscription.
IsActualSideDdi(ddi) ==
    \/ ddi = 141
    \/ (ddi >= 161 /\ ddi <= 176)

IsSetpointSideDdi(ddi) ==
    \/ ddi = 160
    \/ ddi = 289
    \/ (ddi >= 290 /\ ddi <= 305)

\* The pairs <<P, E>> of a pool: P a DeviceProcessData object on a DDI of
\* interest, E a DeviceElement that lists P's object id as a child.
BoundPairs(pool) ==
    {pair \in (1..Len(pool)) \X (1..Len(pool)) :
        /\ pool[pair[1]].objectType = "DeviceProcessData"
        /\ IsActualSideDdi(pool[pair[1]].ddi) \/ IsSetpointSideDdi(pool[pair[1]].ddi)
        /\ pool[pair[2]].objectType = "DeviceElement"
        /\ \E c \in 1..Len(pool[pair[2]].childObjectIds) :
              pool[pair[2]].childObjectIds[c] = pool[pair[1]].objectId}

\* The subscriptions the pairs of a pool call for.
ExpectedSubscriptions(p, pool) ==
    {[command |-> "change_threshold", partner |-> p, ddi |-> pool[pair[1]].ddi,
      elementNumber |-> pool[pair[2]].elementNumber, value |-> 1] :
        pair \in {q \in BoundPairs(pool) : "OnChange" \in pool[q[1]].triggers}}
    \cup
    {[command |-> "time_interval", partner |-> p, ddi |-> pool[pair[1]].ddi,
      elementNumber |-> pool[pair[2]].elementNumber, value |-> 1000] :
        pair \in {q \in BoundPairs(pool) : /\ "TimeInterval" \in pool[q[1]].triggers
                                           /\ IsActualSideDdi(pool[q[1]].ddi)}}

\* The commands of a step that go to partner p, as positions in out.
CommandsTo(out, p) == {i \in 1..Len(out) : out[i].partner = p}

IsSubscription(command) == command.command \in {"change_threshold", "time_interval"}

\* C13 (subscription latch): while a ClientState stays in the store without
\* being replaced by an activation its measurement_commands_sent never goes
\* from true to false; request_measurement_commands leaves the latch of every
\* client true; subscriptions are issued by request_measurement_commands only,
\* and never for a client whose latch is already true.
C13_SubscriptionLatch ==
    [][/\ \A p \in (DOMAIN clients) \cap (DOMAIN clients') :
             (/\ clients[p].areMeasurementCommandsSent
              /\ ~(/\ lastOp'.op = "activate_object_pool"
                   /\ lastOp'.partner = p
                   /\ lastOp'.result = TRUE))
                 => clients'[p].areMeasurementCommandsSent
       /\ lastOp'.op = "request_measurement_commands" =>
             /\ DOMAIN clients' = DOMAIN clients
             /\ \A p \in DOMAIN clients : clients'[p].areMeasurementCommandsSent
       /\ \A i \in 1..Len(canOut') :
             IsSubscription(canOut'[i]) =>
                 /\ lastOp'.op = "request_measurement_commands"
                 /\ canOut'[i].partner \in DOMAIN clients
                 /\ ~clients[canOut'[i].partner].areMeasurementCommandsSent
      ]_vars

\* A later request_measurement_commands call for an activated client whose
\* subscriptions went out before: nothing is emitted.
C13_Witness ==
    /\ lastOp.op = "request_measurement_commands"
    /\ canOut = <<>>
    /\ \E p \in activated :
          /\ p \in DOMAIN clients
          /\ clients[p].areMeasurementCommandsSent
          /\ DOMAIN clients[p].ddiToElementNumber # {}
          /\ clients[p].sectionActualStates = <<ERROR_SATE, ON, OFF>>

\* C14 (bound element for every command), as claimed: every SET-VALUE handed
\* to the CAN stack for an activated client on SectionControlState,
\* SetpointWorkState or a SetpointCondensedWorkState DDI is addressed to the
\* element number that the client's ddi_to_element_number holds for that DDI
\* at that moment; the fallback element number of a missing entry is never
\* used.
C14_BoundElement ==
    \A i \in 1..Len(canOut) :
        (/\ canOut[i].command = "set_value"
         /\ canOut[i].partner \in activated
         /\ IsSetpointSideDdi(canOut[i].ddi)) =>
            /\ canOut[i].partner \in DOMAIN clients
            /\ canOut[i].ddi \in DOMAIN clients[canOut[i].partner].ddiToElementNumber
            /\ canOut[i].elementNumber =
                   clients[canOut[i].partner].ddiToElementNumber[canOut[i].ddi]

\* C15 (edge-triggered mode propagation): update_section_control_enabled(v)
\* emits, for each client whose cached mode differs from v, exactly one
\* SET-VALUE on SectionControlState with value 1 for enabled and 0 for
\* disabled and sets the cache to v; for each client whose cache equals v it
\* emits nothing and changes nothing.
C15_EdgeTriggeredMode ==
    [][lastOp'.op = "update_section_control_enabled" =>
        /\ DOMAIN clients' = DOMAIN clients
        /\ \A i \in 1..Len(canOut') : canOut'[i].partner \in DOMAIN clients
        /\ \A p \in DOMAIN clients :
              IF clients[p].isSectionControlEnabled # lastOp'.enabled
              THEN /\ Cardinality(CommandsTo(canOut', p)) = 1
                   /\ \A i \in CommandsTo(canOut', p) :
                         /\ canOut'[i].command = "set_value"
                         /\ canOut'[i].ddi = 160
                         /\ canOut'[i].value =
                                [hi |-> 0, lo |-> IF lastOp'.enabled THEN 1 ELSE 0]
                   /\ clients'[p] = [clients[p] EXCEPT
                                        !.isSectionControlEnabled = lastOp'.enabled]
              ELSE /\ CommandsTo(canOut', p) = {}
                   /\ clients'[p] = clients[p]
      ]_vars

\* The Section Control frame [1] arrived again for an activated client that
\* is in auto mode already: nothing is emitted.
C15_Witness ==
    /\ lastOp.op = "update_section_control_enabled"
    /\ lastOp.enabled
    /\ canOut = <<>>
    /\ \E p \in activated :
          /\ p \in DOMAIN clients
          /\ clients[p].isSectionControlEnabled

\* The chunks stored for partner p, in upload order.
StoredChunks(pools, p) == IF p \in DOMAIN pools THEN pools[p] ELSE <<>>

\* C16 (upload never fails): store_device_descriptor_object_pool returns true,
\* puts the chunk, accepted by the deserialiser or not, at the end of the
\* partner's chunk sequence whatever the append flag says, and leaves the
\* client store and the chunks of every other partner as they were.
C16_UploadNeverFails ==
    [][lastOp'.op = "store_device_descriptor_object_pool" =>
        LET p == lastOp'.partner
        IN  /\ lastOp'.result = TRUE
            /\ StoredChunks(uploadedPools', p)
                   = StoredChunks(uploadedPools, p) \o <<lastOp'.chunk>>
            /\ DOMAIN uploadedPools' = (DOMAIN uploadedPools) \cup {p}
            /\ \A q \in (DOMAIN uploadedPools) \ {p} : uploadedPools'[q] = uploadedPools[q]
            /\ clients' = clients
      ]_vars

\* A chunk the deserialiser rejects was stored with the append flag off
\* behind an earlier chunk, while another partner holds a chunk of its own.
C16_Witness ==
    /\ lastOp.op = "store_device_descriptor_object_pool"
    /\ lastOp.appendToPool = FALSE
    /\ lastOp.chunk = "invalid"
    /\ uploadedPools[lastOp.partner] = <<"valid", "invalid">>
    /\ \E q \in (DOMAIN uploadedPools) \ {lastOp.partner} : uploadedPools[q] # <<>>

\* Map after is map before without the entry of p, if it had one.
RemovedFrom(before, after, p) ==
    /\ DOMAIN after = (DOMAIN before) \ {p}
    /\ \A q \in DOMAIN after : after[q] = before[q]

\* C17 (teardown effects): deactivate_object_pool and
\* delete_device_descriptor_object_pool remove the partner's ClientState and
\* its stored chunks, on_client_timeout removes the ClientState only; each
\* leaves the entries of every other partner alone, changes nothing for a
\* partner that has neither, and changes nothing when applied a second time.
C17_TeardownEffects ==
    [][lastOp'.op \in {"deactivate_object_pool", "delete_device_descriptor_object_pool",
                       "on_client_timeout"} =>
        LET p == lastOp'.partner
        IN  /\ RemovedFrom(clients, clients', p)
            /\ IF lastOp'.op = "on_client_timeout"
               THEN uploadedPools' = uploadedPools
               ELSE /\ RemovedFrom(uploadedPools, uploadedPools', p)
                    /\ lastOp'.result = TRUE
            /\ (p \notin DOMAIN clients /\ p \notin DOMAIN uploadedPools)
                  => (clients' = clients /\ uploadedPools' = uploadedPools)
            /\ (lastOp.op = lastOp'.op /\ lastOp.partner = p)
                  => (clients' = clients /\ uploadedPools' = uploadedPools)
      ]_vars

\* on_client_timeout removed the ClientState of a partner that keeps its
\* stored chunk, next to another partner whose ClientState stays.
C17_Witness ==
    /\ lastOp.op = "on_client_timeout"
    /\ lastOp.partner \notin DOMAIN clients
    /\ lastOp.partner \in DOMAIN uploadedPools
    /\ uploadedPools[lastOp.partner] = <<"valid">>
    /\ \E q \in DOMAIN clients : q # lastOp.partner

\* C18 (subnet rebind), as claimed: once the discovery socket has received a
\* valid Subnet Announcement for A.B.C, the subnet in memory and the saved
\* subnet are A.B.C, the main socket is bound for A.B.C and every packet sent
\* goes to A.B.C.255, port 9999.
C18_SubnetRebind ==
    lastAnnounced # <<>> =>
        /\ configuredSubnet = lastAnnounced
        /\ savedSubnet = lastAnnounced
        /\ mainSocket = lastAnnounced
        /\ \A h \in 1..Len(udpOut) :
              /\ udpOut[h].dest = lastAnnounced \o <<255>>
              /\ udpOut[h].port = 9999

\* C19 (checksum round-trip), as claimed: for every source, PGN and payload
\* of 0..255 bytes send returns having emitted 0x80 0x81 src pgn L data
\* checksum, the checksum being the sum of src, pgn, L and the data modulo
\* 256, and the receive loop fed that datagram returns having dispatched
\* exactly one frame, with the same source, PGN and data.
C19_ChecksumRoundTrip ==
    /\ pc # "send_stuck"
    /\ pc # "parse_stuck"
    /\ pc \in {"parse", "parsed"} =>
          udpOut[1].bytes =
              <<128, 129, lastOp.src, lastOp.pgn, Len(lastOp.data)>>
                  \o lastOp.data
                  \o <<(lastOp.src + lastOp.pgn + Len(lastOp.data)
                            + SumBytes(lastOp.data)) % 256>>
    /\ pc = "parsed" =>
          lastOp.dispatched =
              <<[src |-> lastOp.src, pgn |-> lastOp.pgn, data |-> lastOp.data]>>

\* Bit i of the 16-bit word whose low byte is bitmap[1] and high byte bitmap[2].
SteerBit(bitmap, i) == ((bitmap[1] + 256 * bitmap[2]) \div (2 ^ i)) % 2 = 1

\* The pump call has dispatched exactly one frame, a Steer Data frame of
\* eight payload bytes.
SteerDataDispatched(op) ==
    /\ op.op = "handle_incoming_packets"
    /\ Len(op.dispatched) = 1
    /\ op.dispatched[1].src = 127
    /\ op.dispatched[1].pgn = 254
    /\ Len(op.dispatched[1].data) = 8

\* C20 (Steer Data drives setpoints), as claimed: once the main socket has
\* dispatched a Steer Data frame whose payload bytes 6 and 7 form the bitmap
\* B, every client in automatic mode has, for each of its sections i, the
\* setpoint ON exactly when i < 16 and bit i of B is set.
C20_SteerDataSetpoints ==
    [][SteerDataDispatched(lastOp') =>
          \A client \in DOMAIN clients' :
              clients'[client].isSectionControlEnabled =>
                  \A i \in 0..(clients'[client].numberOfSections - 1) :
                      (get_section_setpoint_state(clients'[client], i) = ON)
                          <=> (i < 16 /\ SteerBit(<<lastOp'.dispatched[1].data[7],
                                                    lastOp'.dispatched[1].data[8]>>, i))]_vars

\* C21 (activation failure reports an error code), as claimed: whenever
\* activate_object_pool returns false for a partner whose uploaded chunks did
\* not deserialise, the activation-error and pool-error outputs handed back
\* are error values, different from NoErrors (0), whatever the caller passed.
C21_ActivationErrorCode ==
    [][(/\ lastOp'.op = "activate_object_pool"
        /\ lastOp'.uploaded
        /\ ~lastOp'.result)
       => (lastOp'.activationError # 0 /\ lastOp'.poolError # 0)]_vars

\* A subnet value of the settings file that is a subnet: three octets.
ValidSubnetValue(file) ==
    /\ file.kind = "document"
    /\ file.hasSubnet
    /\ file.subnetType = "array"
    /\ Len(file.subnet) = 3
    /\ \A i \in 1..3 : file.subnet[i] \in 0..255

\* C22 (settings fallback), as claimed: Settings::load never terminates the
\* process; after it the configured subnet is the one of the file when the
\* file holds a valid subnet, and the default 192.168.1 when the file is
\* missing, is not a document, or has no or a malformed subnet key.
C22_SettingsFallback ==
    /\ pc # "terminated"
    /\ pc = "loaded" =>
          configuredSubnet = IF ValidSubnetValue(lastOp.file)
                             THEN lastOp.file.subnet
                             ELSE DEFAULT_SUBNET

\* The commands of out addressed to partner p, in order.
CommandsFor(out, p) == SelectSeq(out, LAMBDA c : c.partner = p)

\* C23 (every auto-mode client is served), as claimed: a call of
\* update_section_states, made for a dispatched Steer Data frame, applies the
\* per-client diff and flush to every client of the store whose section
\* control is enabled, whatever the mode of the other clients and their
\* place in the store: its state afterwards and the SET-VALUEs addressed to
\* it are those of the diff and flush.
C23_EveryAutoClientServed ==
    [][SteerDataDispatched(lastOp') =>
          LET desired == SteerSectionStates(<<lastOp'.dispatched[1].data[7],
                                              lastOp'.dispatched[1].data[8]>>)
          IN  \A p \in DOMAIN clients :
                  clients[p].isSectionControlEnabled =>
                      LET r == UpdateClientSections(clients[p], p, desired)
                      IN  /\ clients'[p] = r.st
                          /\ CommandsFor(canOut', p) = r.out]_vars

\* The SET-VALUEs of out on a SetpointCondensedWorkState DDI, in order.
CondensedSetValues(out) ==
    SelectSeq(out, LAMBDA c : c.command = "set_value" /\ IsCondensedSetpointDdi(c.ddi))

\* Seventeen times true followed by three times false.
SeventeenOfTwenty == [i \in 1..20 |-> i <= 17]

\* C24 (packed setpoint word): every SET-VALUE on the SetpointCondensedWorkState
\* DDI of window k carries, in bits 2j..2j+1, the setpoint state of section
\* 16k+j of its client when that section exists and NOT_INSTALLED otherwise;
\* and with 20 sections in automatic mode, all setpoints OFF and a desired
\* vector of 17 times true and 3 times false the call emits exactly two such
\* SET-VALUEs: window 0 with sixteen slots ON, then window 1 with slot 0 ON,
\* slots 1..3 OFF and slots 4..15 NOT_INSTALLED.
C24_PackedSetpointWord ==
    [][lastOp'.op = "update_section_states" =>
          /\ \A n \in 1..Len(canOut') :
                (canOut'[n].command = "set_value" /\ IsCondensedSetpointDdi(canOut'[n].ddi))
                => LET k  == canOut'[n].ddi - SetpointCondensedWorkState1_16
                       st == clients'[canOut'[n].partner]
                   IN  \A j \in 0..15 :
                          BitsAt(canOut'[n].value, j) =
                              IF 16 * k + j < st.numberOfSections
                              THEN st.sectionSetpointStates[16 * k + j + 1]
                              ELSE NOT_INSTALLED
          /\ \A p \in DOMAIN clients :
                (/\ clients[p].numberOfSections = 20
                 /\ clients[p].isSectionControlEnabled
                 /\ ~is_any_section_setpoint_on(clients[p])
                 /\ lastOp'.sectionStates = SeventeenOfTwenty)
                => LET sent == CondensedSetValues(CommandsFor(canOut', p))
                   IN  /\ Len(sent) = 2
                       /\ sent[1].ddi = SetpointCondensedWorkState1_16
                       /\ \A j \in 0..15 : BitsAt(sent[1].value, j) = ON
                       /\ sent[2].ddi = SetpointCondensedWorkState1_16 + 1
                       /\ BitsAt(sent[2].value, 0) = ON
                       /\ \A j \in 1..3 : BitsAt(sent[2].value, j) = OFF
                       /\ \A j \in 4..15 : BitsAt(sent[2].value, j) = NOT_INSTALLED]_vars

\* The call of the example has just been made: twenty sections, seventeen of
\* them now ON, and the two words 0x55555555 and 0xFFFFFF01 handed over.
C24_Witness ==
    /\ lastOp.op = "update_section_states"
    /\ lastOp.sectionStates = SeventeenOfTwenty
    /\ events = 1
    /\ \E p \in DOMAIN clients :
          /\ clients[p].numberOfSections = 20
          /\ LET sent == CondensedSetValues(CommandsFor(canOut, p))
             IN  /\ Len(sent) = 2
                 /\ sent[1].value = [hi |-> 21845, lo |-> 21845]
                 /\ sent[2].value = [hi |-> 65535, lo |-> 65281]

\* C25 (work-state propagation), as claimed: a call of update_section_states
\* hands over, for a client in automatic mode, at most one SET-VALUE on
\* SetpointWorkState, and one exactly when any_on after the call differs from
\* the setpoint_work_state of before the call; its value is any_on, and
\* setpoint_work_state is any_on afterwards.
C25_WorkStatePropagation ==
    [][lastOp'.op = "update_section_states" =>
          \A p \in DOMAIN clients :
              clients[p].isSectionControlEnabled =>
                  LET anyOn == is_any_section_setpoint_on(clients'[p])
                      sent  == SetValuesTo(canOut', p, SetpointWorkState)
                  IN  /\ Cardinality(sent) <= 1
                      /\ (sent # {}) <=> (anyOn # clients[p].setpointWorkState)
                      /\ \A n \in sent :
                            canOut'[n].value = Word(IF anyOn THEN 1 ELSE 0)
                      /\ clients'[p].setpointWorkState = anyOn]_vars

\* C26 (reported work state goes to the actual flag), as claimed:
\* on_value_command with DDI ActualWorkState and value v, for a partner of the
\* client store, sets actual_work_state to (v = 1) and leaves
\* setpoint_work_state, the cache that decides about the next
\* SetpointWorkState SET-VALUE, as it was.
C26_ReportedWorkState ==
    [][(/\ lastOp'.op = "on_value_command"
        /\ lastOp'.ddi = ActualWorkState
        /\ lastOp'.partner \in DOMAIN clients)
       => /\ clients'[lastOp'.partner].actualWorkState = (lastOp'.value = Word(1))
          /\ clients'[lastOp'.partner].setpointWorkState
                 = clients[lastOp'.partner].setpointWorkState]_vars

\* C27 (value commands outside the section data): on_value_command with DDI
\* SectionControlState and value v, for a partner of the client store, sets
\* that client's section_control_enabled to (v = 1) and changes nothing else;
\* with a DDI that is neither an ActualCondensedWorkState one nor
\* SectionControlState nor ActualWorkState it leaves the client store as it
\* was, adding no entry; in every case it returns true, hands nothing to the
\* CAN stack and leaves the uploaded pools alone.
C27_OtherValueCommands ==
    [][lastOp'.op = "on_value_command" =>
          /\ lastOp'.result = TRUE
          /\ canOut' = <<>>
          /\ uploadedPools' = uploadedPools
          /\ (lastOp'.ddi = SectionControlState /\ lastOp'.partner \in DOMAIN clients)
                => clients' = [clients EXCEPT ![lastOp'.partner].isSectionControlEnabled =
                                  (lastOp'.value.hi = 0 /\ lastOp'.value.lo = 1)]
          /\ (/\ ~(/\ lastOp'.ddi >= ActualCondensedWorkState1_16
                    /\ lastOp'.ddi <= ActualCondensedWorkState241_256)
               /\ lastOp'.ddi # SectionControlState
               /\ lastOp'.ddi # ActualWorkState)
                => clients' = clients]_vars

\* An activated three-section client has just reported section control on,
\* next to a partner that is not in the store.
C27_Witness ==
    /\ lastOp.op = "on_value_command"
    /\ lastOp.ddi = SectionControlState
    /\ lastOp.value = Word(1)
    /\ lastOp.partner \in activated
    /\ clients[lastOp.partner].numberOfSections = 3
    /\ clients[lastOp.partner].isSectionControlEnabled
    /\ DOMAIN clients # Partners

\* C28 (latch only on success), as claimed: request_measurement_commands
\* sets measurement_commands_sent for a client only when the subscriptions it
\* issued for that client were accepted by the CAN stack; after a rejection
\* the latch is still false.
C28_LatchOnlyOnSuccess ==
    [][lastOp'.op = "request_measurement_commands" =>
          \A p \in DOMAIN clients :
              (/\ ~clients[p].areMeasurementCommandsSent
               /\ CommandsTo(canOut', p) # {}
               /\ ~lastOp'.accepted)
              => ~clients'[p].areMeasurementCommandsSent]_vars

\* C29 (SET-VALUE retry), as claimed: when the CAN stack rejects the
\* SET-VALUEs of update_section_states or update_section_control_enabled for
\* a client, the client's cached setpoints, setpoint work state and section
\* control mode do not record the values that were not sent, so that the
\* same request finds a difference again and sends on a later tick.
C29_SetValueRetry ==
    [][(/\ lastOp'.op \in {"update_section_states", "update_section_control_enabled"}
        /\ ~lastOp'.accepted)
       => \A p \in DOMAIN clients :
             CommandsTo(canOut', p) # {}
             => /\ clients'[p].sectionSetpointStates = clients[p].sectionSetpointStates
                /\ clients'[p].setpointWorkState = clients[p].setpointWorkState
                /\ clients'[p].isSectionControlEnabled
                       = clients[p].isSectionControlEnabled]_vars

\* C30 (short frames are dispatched promptly), as claimed: a pump call that
\* finds the buffer of the main socket empty and receives a Section Control
\* frame 80 81 7F F1 01 <enable> <checksum> of seven bytes dispatches that
\* frame during the call: update_section_control_enabled(enable = 1) has run
\* on the client store when the call returns.
C30_ShortFramesPrompt ==
    [][(/\ lastOp'.op = "handle_incoming_packets"
        /\ lastOp'.buffered = 0
        /\ \E enable \in {0, 1} : lastOp'.datagram = SectionControlDatagram(enable))
       => /\ lastOp'.dispatched =
                <<[src |-> 127, pgn |-> 241, data |-> <<lastOp'.datagram[6]>>]>>
          /\ clients' = update_section_control_enabled(
                            clients, lastOp'.datagram[6] = 1, 1, <<>>).clients]_vars

\* The frames a byte string is made of when it is a concatenation of
\* well-formed frames 0x80 0x81 src pgn L data checksum.
RECURSIVE FramesIn(_)
FramesIn(bytes) ==
    IF bytes = <<>>
    THEN [ok |-> TRUE, frames |-> <<>>]
    ELSE IF Len(bytes) < 6
    THEN [ok |-> FALSE, frames |-> <<>>]
    ELSE IF bytes[1] # 128 \/ bytes[2] # 129 \/ Len(bytes) < 6 + bytes[5]
    THEN [ok |-> FALSE, frames |-> <<>>]
    ELSE LET L    == bytes[5]
             data == SubSeq(bytes, 6, 5 + L)
             rest == FramesIn(SubSeq(bytes, 7 + L, Len(bytes)))
         IN  [ok |-> /\ rest.ok
                     /\ bytes[6 + L] = (bytes[3] + bytes[4] + L + SumBytes(data)) % 256,
              frames |-> <<[src |-> bytes[3], pgn |-> bytes[4], data |-> data]>>
                             \o rest.frames]

\* C31 (FIFO deframing), as claimed: a pump call that finds the buffer of the
\* main socket empty and receives one datagram made of several well-formed
\* frames back to back returns having dispatched every one of them exactly
\* once, in arrival order, each with its own source, PGN and payload, and the
\* commands handed to the CAN stack are those of the frames in that order.
C31_FifoDeframing ==
    [][(/\ lastOp'.op = "handle_incoming_packets"
        /\ lastOp'.buffered = 0
        /\ FramesIn(lastOp'.datagram).ok
        /\ Len(FramesIn(lastOp'.datagram).frames) >= 2)
       => /\ lastOp'.returned
          /\ lastOp'.dispatched = FramesIn(lastOp'.datagram).frames
          /\ canOut' = DispatchLoop(clients, FramesIn(lastOp'.datagram).frames,
                                    1, 0, <<>>).out]_vars

\* C32 (the pumps always return), as claimed: whatever datagram it receives,
\* a call of handle_incoming_packets or of handle_address_detection comes to
\* an end within MaxParsePasses passes of its parse loop, and the main-socket
\* pump dispatches no more frames than the buffered bytes can hold, a frame
\* being at least six bytes long.
C32_PumpsReturn ==
    [][(lastOp'.op \in {"handle_incoming_packets", "handle_address_detection"})
       => /\ lastOp'.returned
          /\ lastOp'.op = "handle_incoming_packets" =>
                 6 * Len(lastOp'.dispatched) <= lastOp'.buffered + Len(lastOp'.datagram)]_vars

\* The first two bytes the main-socket buffer holds once datagram is received
\* behind what rx still holds.
BufferStart(rx, datagram) ==
    <<ByteAt(Receive(rx.mem, rx.rxIndex, datagram), 0),
      ByteAt(Receive(rx.mem, rx.rxIndex, datagram), 1)>>

\* The frame is one the packet handler knows.
KnownFrame(frame) == frame.src = 127 /\ frame.pgn \in {241, 254}

\* C33 (malformed input is dropped cleanly), as claimed: a main-socket pump
\* call whose buffer does not begin with 0x80 0x81 empties the buffer,
\* dispatches nothing and changes neither the client store nor the subnet; a
\* call that dispatches only frames of unknown source and PGN changes neither;
\* and the pump call after one that received malformed bytes or an unknown
\* frame into an empty buffer, when it receives one well-formed frame of eight
\* bytes or more, dispatches exactly that frame.
C33_MalformedDropped ==
    [][lastOp'.op = "handle_incoming_packets" =>
          /\ BufferStart(rxMain, lastOp'.datagram) # <<128, 129>> =>
                 /\ lastOp'.returned
                 /\ rxMain'.rxIndex = 0
                 /\ lastOp'.dispatched = <<>>
                 /\ clients' = clients
                 /\ configuredSubnet' = configuredSubnet
                 /\ mainSocket' = mainSocket
          /\ (\A n \in 1..Len(lastOp'.dispatched) : ~KnownFrame(lastOp'.dispatched[n])) =>
                 /\ clients' = clients
                 /\ configuredSubnet' = configuredSubnet
                 /\ mainSocket' = mainSocket
          /\ (/\ lastOp.op = "handle_incoming_packets"
              /\ lastOp.buffered = 0
              /\ \/ SubSeq(lastOp.datagram, 1, 2) # <<128, 129>>
                 \/ lastOp.datagram = UnknownPgnDatagram
              /\ FramesIn(lastOp'.datagram).ok
              /\ Len(FramesIn(lastOp'.datagram).frames) = 1
              /\ Len(lastOp'.datagram) >= 8) =>
                 /\ lastOp'.returned
                 /\ lastOp'.dispatched = FramesIn(lastOp'.datagram).frames]_vars

\* C34 (only received bytes are dispatched), as claimed: a main-socket pump
\* call that finds the buffer empty and receives the start of a frame whose
\* declared payload and checksum have not all arrived invokes the packet
\* handler for nothing and changes no client; and every frame the handler is
\* invoked with holds the payload bytes the handler reads, eight for Steer
\* Data and one for Section Control.
C34_OnlyReceivedBytes ==
    [][lastOp'.op = "handle_incoming_packets" =>
          /\ (/\ lastOp'.buffered = 0
              /\ Len(lastOp'.datagram) >= 5
              /\ SubSeq(lastOp'.datagram, 1, 2) = <<128, 129>>
              /\ Len(lastOp'.datagram) < 6 + lastOp'.datagram[5]) =>
                 /\ lastOp'.dispatched = <<>>
                 /\ clients' = clients
                 /\ canOut' = <<>>
          /\ \A n \in 1..Len(lastOp'.dispatched) :
                 LET frame == lastOp'.dispatched[n]
                 IN  /\ (frame.src = 127 /\ frame.pgn = 254) => Len(frame.data) >= 8
                     /\ (frame.src = 127 /\ frame.pgn = 241) => Len(frame.data) >= 1]_vars

\* C35 (speed conversion), as claimed: for every 16-bit speed s in tenths of
\* km/h carried by a Steer Data frame, the machine speed handed to the
\* speed-message interface is floor(s * 100000 / 3600) mm/s, not truncated to
\* 16 bits. (s * 1000) \div 36 is the same number, in 32 bits.
C35_SpeedConversion ==
    pc = "dispatched" => lastOp.machineSpeed = (lastOp.speed * 1000) \div 36

\* C36 (socket roles are separate), as claimed: a discovery-socket pump call
\* that finds its buffer empty and receives a datagram that is not a valid
\* subnet announcement changes neither the subnet, the saved settings, the
\* binding of the main socket nor any client; when the call before it
\* received one well-formed frame that is no announcement into an empty
\* buffer, a call that receives the announcement commits exactly the
\* announced subnet; and a main-socket pump call that receives a subnet
\* announcement changes neither the subnet, the saved settings nor the
\* binding.
C36_SocketRoles ==
    [][/\ (/\ lastOp'.op = "handle_address_detection"
           /\ lastOp'.buffered = 0
           /\ ~ValidAnnouncement(lastOp'.datagram)) =>
              /\ configuredSubnet' = configuredSubnet
              /\ savedSubnet' = savedSubnet
              /\ mainSocket' = mainSocket
              /\ clients' = clients
       /\ (/\ lastOp.op = "handle_address_detection"
           /\ lastOp.buffered = 0
           /\ ~ValidAnnouncement(lastOp.datagram)
           /\ FramesIn(lastOp.datagram).ok
           /\ Len(FramesIn(lastOp.datagram).frames) = 1
           /\ lastOp'.op = "handle_address_detection"
           /\ ValidAnnouncement(lastOp'.datagram)) =>
              /\ lastOp'.returned
              /\ lastOp'.subnets = <<SubSeq(lastOp'.datagram, 8, 10)>>
              /\ configuredSubnet' = SubSeq(lastOp'.datagram, 8, 10)
       /\ (/\ lastOp'.op = "handle_incoming_packets"
           /\ ValidAnnouncement(lastOp'.datagram)) =>
              /\ configuredSubnet' = configuredSubnet
              /\ savedSubnet' = savedSubnet
              /\ mainSocket' = mainSocket]_vars

\* The DDIs of the process data objects of a pool.
PoolDdis(pool) ==
    {pool[i].ddi : i \in {n \in 1..Len(pool) : pool[n].objectType = "DeviceProcessData"}}

\* C37 (binding follows the current pool): after every successful
\* activate_object_pool, a re-activation included, the partner's ClientState
\* has the measurement latch clear, every setpoint and actual state OFF,
\* section control disabled, both work states clear and no binding; and the
\* request_measurement_commands that finds the latch of a client clear sets it
\* and leaves the client with bindings for DDIs of its current pool only.
C37_BindingFollowsPool ==
    [][/\ (lastOp'.op = "activate_object_pool" /\ lastOp'.result) =>
              LET st == clients'[lastOp'.partner]
              IN  /\ ~st.areMeasurementCommandsSent
                  /\ st.numberOfSections = lastOp'.sections % 256
                  /\ st.sectionSetpointStates = [n \in 1..st.numberOfSections |-> OFF]
                  /\ st.sectionActualStates = [n \in 1..st.numberOfSections |-> OFF]
                  /\ ~st.isSectionControlEnabled
                  /\ ~st.setpointWorkState
                  /\ ~st.actualWorkState
                  /\ st.ddiToElementNumber = <<>>
                  /\ st.pool = DevicePool(lastOp'.sections)
       /\ lastOp'.op = "request_measurement_commands" =>
              \A p \in DOMAIN clients :
                  ~clients[p].areMeasurementCommandsSent =>
                      /\ clients'[p].areMeasurementCommandsSent
                      /\ clients'[p].pool = clients[p].pool
                      /\ DOMAIN clients'[p].ddiToElementNumber \subseteq PoolDdis(clients[p].pool)]_vars

\* A partner that held a ClientState with bindings was activated again, with
\* the three-section pool, and its new ClientState has no binding.
C37_Witness ==
    /\ lastOp.op = "activate_object_pool"
    /\ lastOp.result
    /\ lastOp.hadBindings
    /\ lastOp.sections = 3
    /\ clients[lastOp.partner].ddiToElementNumber = <<>>

\* The operations of the hooks the TC update invokes.
HookOps ==
    {"store_device_descriptor_object_pool", "activate_object_pool",
     "deactivate_object_pool", "delete_device_descriptor_object_pool",
     "on_client_timeout", "on_value_command"}

C39_Shutdown ==
    [][/\ ~running => ~running'
       /\ (~running /\ pc = "update") => pc' = "head"
       /\ (~running /\ pc = "head") => pc' = "stop"
       /\ pc = "stop" => (pc' = "can_stop" /\ lastOp'.op = "terminate")
       /\ pc = "can_stop" => (pc' = "stopped" /\ lastOp'.op = "can_stop")
       /\ pc' = "stop" => (pc = "head" /\ ~running)
       /\ pc \in {"stop", "can_stop", "stopped"} =>
              /\ pc' \in {"can_stop", "stopped"}
              /\ canOut' = <<>>
              /\ udpOut' = <<>>
              /\ rxDetect' = rxDetect
              /\ rxMain' = rxMain
              /\ clients' = clients]_vars

====
